---- MODULE Spec2Model ----
(***************************************************************************)
(* Verification model of the log-ingestion Lambda of otel-aws-log-parser:  *)
(* the streaming ingestion pipeline (readAndParseFromS3), the handler, the *)
(* batched concurrent delivery (convertAndSend) and the retry loop         *)
(* (sendWithRetry).  Line numbers refer to src/unnamed/part_005.           *)
(***************************************************************************)
EXTENDS Integers, Sequences, FiniteSets, TLC

(***************************************************************************)
(* Bounds of the model.                                                    *)
(***************************************************************************)
\* longest object body, in lines
MaxLines == 3
\* largest MAX_BATCH_SIZE drawn for the ingestion pipeline (channel capacity)
MaxChanCap == 2
\* largest MAX_CONCURRENT drawn
MaxConcurrentCfg == 2

(***************************************************************************)
(* Configuration globals (part_005:315-344) and the state of one handler   *)
(* invocation.                                                             *)
(***************************************************************************)
VARIABLES
    maxBatchSize,   \* MAX_BATCH_SIZE
    maxConcurrent,  \* MAX_CONCURRENT
    maxRetries,     \* MAX_RETRIES
    body,           \* the S3 object: [lines, fail]
    hpc,            \* position of the handler / main goroutine
    hret,           \* what the handler returned
    scanned,        \* lines the producer's scanner has delivered
    prod,           \* producer goroutine: "idle", "scan", "done"
    scanErrLogged,  \* the producer logged scanner.Err()
    linesChan, linesClosed,
    workers,        \* worker goroutines: [pc, entry]
    wgParse,        \* sync.WaitGroup counter of the parse workers
    closer,         \* the goroutine that closes entriesChan
    entriesChan, entriesClosed,
    chanPanic,      \* a send on a closed channel happened
    collected,      \* the collector's entries slice
    readRet,        \* result of readAndParseFromS3: [entries, err]
    entries,        \* the argument of convertAndSend
    grouped,        \* resource key -> resourceGroup
    mpc,            \* convertAndSend: "idle", "group", "loop", "returned"
    todo,           \* keys the range over grouped has not reached yet
    cur,            \* the group being split: <<>> or <<key>>
    bi,             \* loop index i of the batch loop
    batchCount,
    senders,        \* the sender goroutines, in the order they were started
    sem,            \* tokens in the semaphore channel
    errChan,        \* the error channel, capacity 1
    totalSent,
    wgSend,         \* sync.WaitGroup counter of the senders
    sendRet,        \* result of convertAndSend
    attrCall,       \* a call of an adapter's GetResourceAttributes
    keyCall,        \* a call of ParseRegionAccountFromS3Key
    dispatch,       \* the selection of a processor for one object
    inv,            \* an invocation of the handler over several objects
    fetch,          \* the retrieval of one object's body by a processor
    cfCall,         \* a call of ParseCloudFrontLogLine
    nlbCall,        \* a call of ParseNLBLogLine
    fileCall,       \* a call of ParseCloudFrontLogFile
    extractCall     \* a call of extractS3Records

cfgVars == <<maxBatchSize, maxConcurrent, maxRetries>>
ingestVars == <<body, scanned, prod, scanErrLogged, linesChan, linesClosed, workers,
                wgParse, closer, entriesChan, entriesClosed, chanPanic, collected, readRet>>
sendVars == <<entries, grouped, mpc, todo, cur, bi, batchCount, senders, sem, errChan,
              totalSent, wgSend, sendRet>>
procVars == <<attrCall, keyCall, dispatch, inv, fetch, cfCall>>
callVars == <<nlbCall, fileCall, extractCall>>
vars == <<cfgVars, ingestVars, sendVars, procVars, callVars, hpc, hret>>

(***************************************************************************)
(* Values.  A nil pointer or nil error is the empty sequence, a non-nil    *)
(* one a one-element sequence.                                             *)
(***************************************************************************)
Range(s) == {s[i] : i \in DOMAIN s}

\* the multiset of the elements of a sequence
BagOfSeq(s) == [x \in Range(s) |-> Cardinality({i \in DOMAIN s : s[i] = x})]

SeqsUpTo(S, n) == UNION {[1..k -> S] : k \in 0..n}

\* an error value: what failed, for which batch, after how many attempts, and the
\* cause it wraps (an attempt outcome)
NoCause == [kind |-> "nil", status |-> 0]
Error(msg, bID, attempts, cause) ==
    [msg |-> msg, bID |-> bID, attempts |-> attempts, cause |-> cause]

\* a function's result that has not been produced yet / a returned (possibly nil) error
Running == [returned |-> FALSE, err |-> <<>>]
Returned(err) == [returned |-> TRUE, err |-> err]

\* parser.ALBLogEntry, reduced to the fields the pipeline reads
EntryA == [TargetGroupARN |-> "tg1", ChosenCertARN |-> "-", ELB |-> "lb1"]
EntryC == [TargetGroupARN |-> "-", ChosenCertARN |-> "cert1", ELB |-> "lb3"]

BlankLine == [kind |-> "blank", fields |-> <<>>]
CommentLine == [kind |-> "comment", fields |-> <<>>]
MalformedLine == [kind |-> "malformed", fields |-> <<>>]
ValidLine(e) == [kind |-> "valid", fields |-> <<e>>]

LineUniverse == {BlankLine, CommentLine, MalformedLine, ValidLine(EntryA), ValidLine(EntryC)}

\* parser.ParseLogLine: (entry, nil) for a well-formed line, (nil, nil) for a
\* blank or comment line, (nil, error) for a malformed one
ParseLogLine(line) ==
    CASE line.kind = "valid" -> [entry |-> line.fields, err |-> <<>>]
      [] line.kind \in {"blank", "comment"} -> [entry |-> <<>>, err |-> <<>>]
      [] OTHER -> [entry |-> <<>>, err |-> <<Error("invalid log format", 0, 0, NoCause)>>]

\* the single-threaded loop of the non-streaming readAndParseFromS3 (125-138)
RECURSIVE SequentialParse(_)
SequentialParse(lines) ==
    IF lines = <<>> THEN <<>>
    ELSE LET line == Head(lines)
             r == ParseLogLine(line)
             rest == SequentialParse(Tail(lines))
         IN IF line.kind = "blank" THEN rest
            ELSE IF r.err # <<>> THEN rest
            ELSE IF r.entry # <<>> THEN r.entry \o rest
            ELSE rest

\* numWorkers (410-413)
NumWorkers(mc) == IF mc < 1 THEN 1 ELSE mc

(***************************************************************************)
(* readAndParseFromS3 (380-464)                                            *)
(***************************************************************************)
\* GetObject and the gzip header (382-401), then the channels and the workers,
\* the producer and the closer are started (403-454)
StartRead ==
    /\ hpc = "read"
    /\ IF body.fail = "open"
       THEN /\ readRet' = [entries |-> <<>>, err |-> <<Error("failed to get S3 object", 0, 0, NoCause)>>]
            /\ hpc' = "returned"
            /\ UNCHANGED <<workers, wgParse, prod, closer>>
       ELSE /\ workers' = [w \in 1..NumWorkers(maxConcurrent) |-> [pc |-> "recv", entry |-> <<>>]]
            /\ wgParse' = NumWorkers(maxConcurrent)
            /\ prod' = "scan"
            /\ closer' = "wait"
            /\ hpc' = "collect"
            /\ UNCHANGED readRet
    /\ UNCHANGED <<cfgVars, callVars, procVars, sendVars, body, hret, scanned, scanErrLogged, linesChan, linesClosed,
                   entriesChan, entriesClosed, chanPanic, collected>>

\* what a worker does with a line it received (420-426): the next pc and entry
WorkerOnLine(line) ==
    LET r == ParseLogLine(line)
    IN IF line.kind = "blank" THEN [pc |-> "recv", entry |-> <<>>]
       ELSE IF r.err = <<>> /\ r.entry # <<>> THEN [pc |-> "send", entry |-> r.entry]
       ELSE [pc |-> "recv", entry |-> <<>>]

\* ProducerSend with a send that gives up when linesChan is full (select with default)
ProducerSendLossy ==
    /\ prod = "scan"
    /\ scanned < Len(body.lines)
    /\ maxBatchSize > 0
    /\ linesChan' = IF Len(linesChan) < maxBatchSize
                    THEN Append(linesChan, body.lines[scanned + 1])
                    ELSE linesChan
    /\ scanned' = scanned + 1
    /\ UNCHANGED <<cfgVars, callVars, procVars, sendVars, body, hpc, hret, prod, scanErrLogged, linesClosed, workers,
                   wgParse, closer, entriesChan, entriesClosed, chanPanic, collected, readRet>>

\* producer: scanner.Scan() delivered a line, linesChan <- line (439-441), buffered
ProducerSend ==
    /\ prod = "scan"
    /\ scanned < Len(body.lines)
    /\ Len(linesChan) < maxBatchSize
    /\ linesChan' = Append(linesChan, body.lines[scanned + 1])
    /\ scanned' = scanned + 1
    /\ UNCHANGED <<cfgVars, callVars, procVars, sendVars, body, hpc, hret, prod, scanErrLogged, linesClosed, workers, wgParse,
                   closer, entriesChan, entriesClosed, chanPanic, collected, readRet>>

\* producer and worker w meet on an unbuffered linesChan (capacity 0)
ProducerHandoff(w) ==
    /\ prod = "scan"
    /\ scanned < Len(body.lines)
    /\ maxBatchSize = 0
    /\ w \in DOMAIN workers
    /\ workers[w].pc = "recv"
    /\ workers' = [workers EXCEPT ![w] = WorkerOnLine(body.lines[scanned + 1])]
    /\ scanned' = scanned + 1
    /\ UNCHANGED <<cfgVars, callVars, procVars, sendVars, body, hpc, hret, prod, scanErrLogged, linesChan, linesClosed, wgParse,
                   closer, entriesChan, entriesClosed, chanPanic, collected, readRet>>

\* producer: Scan() returned false; scanner.Err() is logged, linesChan closed (443-447)
ProducerClose ==
    /\ prod = "scan"
    /\ scanned = Len(body.lines)
    /\ scanErrLogged' = (body.fail = "stream")
    /\ linesClosed' = TRUE
    /\ prod' = "done"
    /\ UNCHANGED <<cfgVars, callVars, procVars, sendVars, body, hpc, hret, scanned, linesChan, workers, wgParse,
                   closer, entriesChan, entriesClosed, chanPanic, collected, readRet>>

\* worker: for line := range linesChan, one buffered line (419-426)
WorkerRecv(w) ==
    /\ w \in DOMAIN workers
    /\ workers[w].pc = "recv"
    /\ linesChan # <<>>
    /\ workers' = [workers EXCEPT ![w] = WorkerOnLine(Head(linesChan))]
    /\ linesChan' = Tail(linesChan)
    /\ UNCHANGED <<cfgVars, callVars, procVars, sendVars, body, hpc, hret, scanned, prod, scanErrLogged, linesClosed, wgParse,
                   closer, entriesChan, entriesClosed, chanPanic, collected, readRet>>

\* worker: entriesChan <- entry (425); with capacity 0 the collector takes it directly
WorkerSend(w) ==
    /\ w \in DOMAIN workers
    /\ workers[w].pc = "send"
    /\ IF entriesClosed
       THEN /\ chanPanic' = TRUE
            /\ UNCHANGED <<entriesChan, collected>>
       ELSE /\ UNCHANGED chanPanic
            /\ IF maxBatchSize = 0
               THEN /\ hpc = "collect"
                    /\ collected' = Append(collected, workers[w].entry[1])
                    /\ UNCHANGED entriesChan
               ELSE /\ Len(entriesChan) < maxBatchSize
                    /\ entriesChan' = Append(entriesChan, workers[w].entry[1])
                    /\ UNCHANGED collected
    /\ workers' = [workers EXCEPT ![w] = [pc |-> "recv", entry |-> <<>>]]
    /\ UNCHANGED <<cfgVars, callVars, procVars, sendVars, body, hpc, hret, scanned, prod, scanErrLogged, linesChan, linesClosed,
                   wgParse, closer, entriesClosed, readRet>>

\* a worker that leaves its loop without wg.Done()
WorkerExitNoDone(w) ==
    /\ w \in DOMAIN workers
    /\ workers[w].pc = "recv"
    /\ linesChan = <<>>
    /\ linesClosed
    /\ workers' = [workers EXCEPT ![w].pc = "done"]
    /\ UNCHANGED <<cfgVars, callVars, procVars, sendVars, body, hpc, hret, scanned, prod, scanErrLogged, linesChan, linesClosed,
                   wgParse, closer, entriesChan, entriesClosed, chanPanic, collected, readRet>>

\* worker: linesChan is closed and drained, the range loop ends, wg.Done() (418)
WorkerExit(w) ==
    /\ w \in DOMAIN workers
    /\ workers[w].pc = "recv"
    /\ linesChan = <<>>
    /\ linesClosed
    /\ workers' = [workers EXCEPT ![w].pc = "done"]
    /\ wgParse' = wgParse - 1
    /\ UNCHANGED <<cfgVars, callVars, procVars, sendVars, body, hpc, hret, scanned, prod, scanErrLogged, linesChan, linesClosed,
                   closer, entriesChan, entriesClosed, chanPanic, collected, readRet>>

\* a closer that closes entriesChan without wg.Wait()
CloserCloseNoWait ==
    /\ closer = "wait"
    /\ entriesClosed' = TRUE
    /\ closer' = "done"
    /\ UNCHANGED <<cfgVars, callVars, procVars, sendVars, body, hpc, hret, scanned, prod, scanErrLogged, linesChan, linesClosed,
                   workers, wgParse, entriesChan, chanPanic, collected, readRet>>

\* closer: wg.Wait(); close(entriesChan) (451-454)
CloserClose ==
    /\ closer = "wait"
    /\ wgParse = 0
    /\ entriesClosed' = TRUE
    /\ closer' = "done"
    /\ UNCHANGED <<cfgVars, callVars, procVars, sendVars, body, hpc, hret, scanned, prod, scanErrLogged, linesChan, linesClosed,
                   workers, wgParse, entriesChan, chanPanic, collected, readRet>>

\* collector: for entry := range entriesChan, one buffered entry (458-460)
Collect ==
    /\ hpc = "collect"
    /\ entriesChan # <<>>
    /\ collected' = Append(collected, Head(entriesChan))
    /\ entriesChan' = Tail(entriesChan)
    /\ UNCHANGED <<cfgVars, callVars, procVars, sendVars, body, hpc, hret, scanned, prod, scanErrLogged, linesChan, linesClosed,
                   workers, wgParse, closer, entriesClosed, chanPanic, readRet>>

\* the value readAndParseFromS3 returns once entriesChan is closed and drained (462-463)
ReadResult(es) == [entries |-> es, err |-> <<>>]

CollectReturn ==
    /\ hpc = "collect"
    /\ entriesChan = <<>>
    /\ entriesClosed
    /\ readRet' = ReadResult(collected)
    /\ hpc' = "returned"
    /\ UNCHANGED <<cfgVars, callVars, procVars, sendVars, body, hret, scanned, prod, scanErrLogged, linesChan, linesClosed,
                   workers, wgParse, closer, entriesChan, entriesClosed, chanPanic, collected>>

(***************************************************************************)
(* handler (346-378), one S3 record                                        *)
(***************************************************************************)
HandlerAfterRead ==
    /\ hpc = "returned"
    /\ IF readRet.err # <<>>
       THEN /\ hret' = Returned(readRet.err)
            /\ hpc' = "done"
            /\ UNCHANGED <<entries, mpc>>
       ELSE IF Len(readRet.entries) = 0
       THEN /\ hret' = Returned(<<>>)
            /\ hpc' = "done"
            /\ UNCHANGED <<entries, mpc>>
       ELSE /\ hpc' = "send"
            /\ entries' = readRet.entries
            /\ mpc' = "group"
            /\ UNCHANGED hret
    /\ UNCHANGED <<cfgVars, callVars, procVars, ingestVars, grouped, todo, cur, bi, batchCount, senders, sem,
                   errChan, totalSent, wgSend, sendRet>>

(***************************************************************************)
(* Specification of the ingestion of one object.                           *)
(***************************************************************************)
\* nothing of readAndParseFromS3 has run
IngestIdle ==
    /\ scanned = 0
    /\ prod = "idle"
    /\ scanErrLogged = FALSE
    /\ linesChan = <<>>
    /\ linesClosed = FALSE
    /\ workers = <<>>
    /\ wgParse = 0
    /\ closer = "idle"
    /\ entriesChan = <<>>
    /\ entriesClosed = FALSE
    /\ chanPanic = FALSE
    /\ collected = <<>>
    /\ readRet = [entries |-> <<>>, err |-> <<>>]

\* nothing of convertAndSend has run
SendIdle ==
    /\ grouped = <<>>
    /\ todo = {}
    /\ cur = <<>>
    /\ bi = 0
    /\ batchCount = 0
    /\ senders = <<>>
    /\ sem = 0
    /\ errChan = <<>>
    /\ totalSent = 0
    /\ wgSend = 0
    /\ sendRet = Running

\* no call of a parser or of the envelope extraction is under way
CallIdle ==
    /\ fileCall = [pc |-> "idle"]
    /\ extractCall = [pc |-> "idle"]

\* no call of the processor package and no multi-object invocation is under way
ProcIdle ==
    /\ CallIdle
    /\ attrCall = [pc |-> "idle"]
    /\ keyCall = [pc |-> "idle"]
    /\ dispatch = [pc |-> "idle"]
    /\ inv = [pc |-> "idle"]
    /\ fetch = [pc |-> "idle"]
    /\ cfCall = [pc |-> "idle"]
    /\ nlbCall = [pc |-> "idle"]

IngestInit ==
    /\ ProcIdle
    /\ maxBatchSize \in 0..MaxChanCap
    /\ maxConcurrent \in 0..MaxConcurrentCfg
    /\ maxRetries = 0
    /\ body \in [lines : SeqsUpTo(LineUniverse, MaxLines), fail : {"none", "open", "stream"}]
    /\ hpc = "read"
    /\ hret = Running
    /\ IngestIdle
    /\ entries = <<>>
    /\ mpc = "idle"
    /\ SendIdle

IngestNext ==
    \/ StartRead
    \/ ProducerSend
    \/ \E w \in 1..(MaxConcurrentCfg + 1) : ProducerHandoff(w)
    \/ ProducerClose
    \/ \E w \in 1..(MaxConcurrentCfg + 1) : WorkerRecv(w)
    \/ \E w \in 1..(MaxConcurrentCfg + 1) : WorkerSend(w)
    \/ \E w \in 1..(MaxConcurrentCfg + 1) : WorkerExit(w)
    \/ CloserClose
    \/ Collect
    \/ CollectReturn
    \/ HandlerAfterRead

SpecIngest == IngestInit /\ [][IngestNext]_vars

(***************************************************************************)
(* 64-bit machine integers and exact naturals, both as the set of the      *)
(* positions of their one bits (bit 63 set: a negative int64).             *)
(***************************************************************************)
\* width of Go's int and of time.Duration (int64) on the Lambda targets
WordBits == 64
\* time.Second, in nanoseconds
Second == 1000000000
\* retryBaseSec = 1.0 (343)
RetryBaseSec == 1

RECURSIVE Pow2(_)
Pow2(n) == IF n = 0 THEN 1 ELSE 2 * Pow2(n - 1)

\* the bits of a natural below 2^31
BitsOf(n) == {i \in 0..30 : (n \div Pow2(i)) % 2 = 1}

SetMax(S) == CHOOSE x \in S : \A y \in S : y <= x
SetMin(S) == CHOOSE x \in S : \A y \in S : x <= y

\* x * 2^s, exact
Shl(x, s) == {b + s : b \in x}

\* exact sum of two naturals, bit by bit with carry
RECURSIVE AddFrom(_, _, _, _, _)
AddFrom(a, b, i, carry, top) ==
    IF i > top THEN (IF carry = 1 THEN {i} ELSE {})
    ELSE LET n == (IF i \in a THEN 1 ELSE 0) + (IF i \in b THEN 1 ELSE 0) + carry
         IN (IF n % 2 = 1 THEN {i} ELSE {}) \cup AddFrom(a, b, i + 1, n \div 2, top)

Add(a, b) ==
    IF a = {} THEN b
    ELSE IF b = {} THEN a
    ELSE AddFrom(a, b, 0, 0, SetMax(a \cup b))

\* exact product, shift and add
RECURSIVE Mul(_, _)
Mul(a, b) ==
    IF a = {} THEN {}
    ELSE LET i == SetMax(a) IN Add(Shl(b, i), Mul(a \ {i}, b))

\* the low 64 bits: what an int64 operation keeps
Wrap64(x) == {b \in x : b < WordBits}

Mul64(a, b) == Wrap64(Mul(a, b))

IsNegative64(x) == (WordBits - 1) \in x

\* multiplier := 1 << uint(attempt-1) (595)
Multiplier(attempt) == Wrap64(Shl({0}, attempt - 1))

\* sleep := time.Duration(retryBaseSec*float64(multiplier)) * time.Second (596); the
\* float64 product of 1.0 and a power of two (or 0, or -2^63) converts back exactly
RetryBaseBits == BitsOf(RetryBaseSec)
SecondBits == BitsOf(Second)

BackoffSleep(attempt) == Mul64(Mul64(RetryBaseBits, Multiplier(attempt)), SecondBits)

(***************************************************************************)
(* sendWithRetry (585-633)                                                 *)
(***************************************************************************)
\* what one attempt can meet: http.NewRequest fails, client.Do fails, or a response
ReqErr == [kind |-> "reqerr", status |-> 0]
NetErr == [kind |-> "neterr", status |-> 0]
Resp(status) == [kind |-> "resp", status |-> status]

\* IsSuccess that takes every status below 400 for a success
IsSuccessBelow400(o) == o.kind = "resp" /\ o.status >= 200 /\ o.status < 400

\* resp.StatusCode >= 200 && resp.StatusCode < 300 (622)
IsSuccess(o) == o.kind = "resp" /\ o.status >= 200 /\ o.status < 300

\* the state of one call of sendWithRetry: attempt is the loop variable, made counts
\* the iterations run, slept lists the backoff sleeps taken
NewCall(payload) ==
    [payload |-> payload, attempt |-> 0, made |-> 0, lastErr |-> NoCause,
     lastOutcome |-> NoCause, slept |-> <<>>, ret |-> Running]

\* RetryStep whose loop condition is attempt < maxRetries
RetryStepOffByOne(c, o, mr) ==
    LET slept2 == IF c.attempt > 0 THEN Append(c.slept, BackoffSleep(c.attempt)) ELSE c.slept
        c1 == [c EXCEPT !.slept = slept2, !.made = c.made + 1, !.lastOutcome = o]
    IN IF o.kind = "resp" /\ o.status >= 200 /\ o.status < 300
       THEN [c1 EXCEPT !.ret = Returned(<<>>)]
       ELSE LET c2 == [c1 EXCEPT !.lastErr = o, !.attempt = c.attempt + 1]
            IN IF c2.attempt < mr
               THEN c2
               ELSE [c2 EXCEPT !.ret = Returned(<<Error("failed after attempts", 0, mr + 1, c2.lastErr)>>)]

\* one iteration of the retry loop meeting outcome o (592-630), and the return
\* after the loop when no attempt is left (632)
RetryStep(c, o, mr) ==
    LET slept2 == IF c.attempt > 0 THEN Append(c.slept, BackoffSleep(c.attempt)) ELSE c.slept
        c1 == [c EXCEPT !.slept = slept2, !.made = c.made + 1, !.lastOutcome = o]
    IN IF IsSuccess(o)
       THEN [c1 EXCEPT !.ret = Returned(<<>>)]
       ELSE LET c2 == [c1 EXCEPT !.lastErr = o, !.attempt = c.attempt + 1]
            IN IF c2.attempt <= mr
               THEN c2
               ELSE [c2 EXCEPT !.ret = Returned(<<Error("failed after attempts", 0, mr + 1, c2.lastErr)>>)]

(***************************************************************************)
(* convertAndSend (466-562)                                                *)
(***************************************************************************)
\* getResourceKey (640-646)
getResourceKey(entry) ==
    IF entry.TargetGroupARN = "" \/ entry.TargetGroupARN = "-"
    THEN entry.ChosenCertARN
    ELSE entry.TargetGroupARN

\* the account and the region embedded in an ARN of a parsed line; the certificate
\* of an IAM server certificate has no region, "-" and "" have neither
ArnAccount(arn) ==
    CASE arn = "tg1" -> "111122223333"
      [] arn = "cert1" -> "444455556666"
      [] arn = "iamcert" -> "777788889999"
      [] OTHER -> ""

ArnRegion(arn) ==
    CASE arn = "tg1" -> "us-east-1"
      [] arn = "cert1" -> "eu-west-1"
      [] OTHER -> ""

\* converter.ExtractResourceAttributes: the constants of the format, the entry's
\* load balancer, and the account and region of the entry's ARN when it has them
ExtractResourceAttributes(entry) ==
    LET arn == getResourceKey(entry)
    IN << <<"cloud.provider", "aws">>, <<"cloud.platform", "aws_elastic_load_balancing">>,
          <<"cloud.service", "elasticloadbalancing">>, <<"aws.elb.name", entry.ELB>> >>
       \o (IF ArnAccount(arn) # "" THEN << <<"cloud.account.id", ArnAccount(arn)>> >> ELSE <<>>)
       \o (IF ArnRegion(arn) # "" THEN << <<"cloud.region", ArnRegion(arn)>> >> ELSE <<>>)

\* converter.ConvertToOTel: the log record of an entry
ConvertToOTel(entry) == [Body |-> entry]

\* a grouping loop that recomputes the attributes of a group at every entry
RECURSIVE GroupFromLastAttrs(_, _)
GroupFromLastAttrs(es, g) ==
    IF es = <<>> THEN g
    ELSE LET entry == Head(es)
             resKey == getResourceKey(entry)
             old == IF resKey \in DOMAIN g THEN g[resKey].LogRecords ELSE <<>>
             g2 == [k \in DOMAIN g \cup {resKey} |->
                      IF k = resKey
                      THEN [ResourceAttrs |-> ExtractResourceAttributes(entry),
                            LogRecords |-> Append(old, ConvertToOTel(entry))]
                      ELSE g[k]]
         IN GroupFromLastAttrs(Tail(es), g2)

\* the grouping loop (470-482)
RECURSIVE GroupFrom(_, _)
GroupFrom(es, g) ==
    IF es = <<>> THEN g
    ELSE LET entry == Head(es)
             resKey == getResourceKey(entry)
             g1 == IF resKey \in DOMAIN g THEN g
                   ELSE [k \in DOMAIN g \cup {resKey} |->
                            IF k = resKey
                            THEN [ResourceAttrs |-> ExtractResourceAttributes(entry),
                                  LogRecords |-> <<>>]
                            ELSE g[k]]
             g2 == [g1 EXCEPT ![resKey].LogRecords = Append(@, ConvertToOTel(entry))]
         IN GroupFrom(Tail(es), g2)

\* buildPayload that leaves the resource of the payload empty
buildPayloadNoResource(resourceAttrs, logRecords) ==
    [ResourceLogs |->
        << [Resource |-> [Attributes |-> <<>>],
            ScopeLogs |-> << [Scope |-> [Name |-> "alb-log-parser", Version |-> "1.0.0"],
                              LogRecords |-> logRecords] >>] >>]

\* buildPayload (564-583)
buildPayload(resourceAttrs, logRecords) ==
    [ResourceLogs |->
        << [Resource |-> [Attributes |-> resourceAttrs],
            ScopeLogs |-> << [Scope |-> [Name |-> "alb-log-parser", Version |-> "1.0.0"],
                              LogRecords |-> logRecords] >>] >>]

\* BatchEnd that clamps to the index of the last record instead of the length
BatchEndShort(i, n, size) == IF i + size > n - 1 THEN n - 1 ELSE i + size

\* end of the batch that starts at index i of n records (511-514)
BatchEnd(i, n, size) == IF i + size > n THEN n ELSE i + size

\* capacity of errChan (491)
ErrChanCap == 1

\* most entries handed to convertAndSend
MaxEntries == 3
\* most sender goroutines followed: one for each entry, which is all there are
\* unless the batch loop does not advance
MaxSenders == MaxEntries

\* select { case errChan <- e: default: } (534-537)
TrySendErr(ch, e) == IF Len(ch) < ErrChanCap THEN Append(ch, e) ELSE ch

\* the grouping loop and the creation of sem, wg and errChan (466-494)
GroupStep ==
    /\ mpc = "group"
    /\ grouped' = GroupFrom(entries, <<>>)
    /\ todo' = DOMAIN grouped'
    /\ mpc' = "loop"
    /\ UNCHANGED <<cfgVars, callVars, procVars, ingestVars, hpc, hret, entries, cur, bi, batchCount, senders, sem,
                   errChan, totalSent, wgSend, sendRet>>

\* for resKey, group := range grouped: the next group, in map order (497-502)
NextGroup ==
    /\ mpc = "loop"
    /\ cur = <<>>
    /\ \E k \in todo :
          /\ cur' = <<k>>
          /\ todo' = todo \ {k}
    /\ bi' = 0
    /\ batchCount' = 0
    /\ UNCHANGED <<cfgVars, callVars, procVars, ingestVars, hpc, hret, entries, grouped, mpc, senders, sem, errChan,
                   totalSent, wgSend, sendRet>>

\* a batch-loop iteration that finds an error in errChan returns it (505-508)
CheckErrReturn ==
    /\ mpc = "loop"
    /\ cur # <<>>
    /\ errChan # <<>>
    /\ sendRet' = Returned(<<Head(errChan)>>)
    /\ errChan' = Tail(errChan)
    /\ mpc' = "returned"
    /\ UNCHANGED <<cfgVars, callVars, procVars, ingestVars, hpc, hret, entries, grouped, todo, cur, bi, batchCount,
                   senders, sem, totalSent, wgSend>>

\* the sender goroutine started for records lo+1..hi of group key (518-522)
NewSender(key, bID, lo, hi, payload) ==
    [key |-> key, bID |-> bID, bSize |-> hi - lo, lo |-> lo, hi |-> hi, pc |-> "acquire",
     call |-> NewCall(payload)]

\* a batch-loop iteration that finds errChan empty slices the next batch, builds
\* its payload and starts its sender (505-546); the loop condition i < len follows
SpawnBatch ==
    /\ mpc = "loop"
    /\ cur # <<>>
    /\ errChan = <<>>
    /\ Len(senders) < MaxSenders
    /\ LET group == grouped[cur[1]]
           end == BatchEnd(bi, Len(group.LogRecords), maxBatchSize)
           batch == SubSeq(group.LogRecords, bi + 1, end)
           payload == buildPayload(group.ResourceAttrs, batch)
       IN /\ senders' = Append(senders, NewSender(cur[1], batchCount + 1, bi, end, payload))
          /\ cur' = IF bi + maxBatchSize < Len(group.LogRecords) THEN cur ELSE <<>>
    /\ wgSend' = wgSend + 1
    /\ batchCount' = batchCount + 1
    /\ bi' = bi + maxBatchSize
    /\ UNCHANGED <<cfgVars, callVars, procVars, ingestVars, hpc, hret, entries, grouped, mpc, todo, sem, errChan,
                   totalSent, sendRet>>

\* Acquire with a semaphore that lets one sender too many in
AcquireOffByOne(s) ==
    /\ s \in DOMAIN senders
    /\ senders[s].pc = "acquire"
    /\ sem <= maxConcurrent
    /\ sem' = sem + 1
    /\ senders' = [senders EXCEPT ![s].pc = "send"]
    /\ UNCHANGED <<cfgVars, callVars, procVars, ingestVars, hpc, hret, entries, grouped, mpc, todo, cur, bi,
                   batchCount, errChan, totalSent, wgSend, sendRet>>

\* sender: sem <- struct{}{} (526)
Acquire(s) ==
    /\ s \in DOMAIN senders
    /\ senders[s].pc = "acquire"
    /\ sem < maxConcurrent
    /\ sem' = sem + 1
    /\ senders' = [senders EXCEPT ![s].pc = "send"]
    /\ UNCHANGED <<cfgVars, callVars, procVars, ingestVars, hpc, hret, entries, grouped, mpc, todo, cur, bi,
                   batchCount, errChan, totalSent, wgSend, sendRet>>

\* Attempt whose update of totalSent starts from the counter's first value, as
\* a sender that read it outside sentLock would
AttemptUnlocked(s, o) ==
    /\ s \in DOMAIN senders
    /\ senders[s].pc = "send"
    /\ LET sd == senders[s]
           c == RetryStep(sd.call, o, maxRetries)
           err == c.ret.err
       IN IF ~c.ret.returned
          THEN /\ senders' = [senders EXCEPT ![s].call = c]
               /\ UNCHANGED <<sem, errChan, totalSent, wgSend>>
          ELSE /\ senders' = [senders EXCEPT ![s].call = c, ![s].pc = "done"]
               /\ IF err # <<>>
                  THEN /\ errChan' = TrySendErr(errChan,
                                        Error("failed to send batch", sd.bID, err[1].attempts,
                                              err[1].cause))
                       /\ UNCHANGED totalSent
                  ELSE /\ totalSent' = sd.bSize
                       /\ UNCHANGED errChan
               /\ sem' = sem - 1
               /\ wgSend' = wgSend - 1
    /\ UNCHANGED <<cfgVars, callVars, procVars, ingestVars, hpc, hret, entries, grouped, mpc, todo, cur, bi,
                   batchCount, sendRet>>

\* sender: one iteration of the retry loop of sendWithRetry(p) (531); when the call
\* returns with it, the rest of the goroutine runs without blocking: the error is
\* offered to errChan or bSize is added to totalSent under sentLock, then the
\* deferred <-sem and wg.Done() (523-544)
Attempt(s, o) ==
    /\ s \in DOMAIN senders
    /\ senders[s].pc = "send"
    /\ LET sd == senders[s]
           c == RetryStep(sd.call, o, maxRetries)
           err == c.ret.err
       IN IF ~c.ret.returned
          THEN /\ senders' = [senders EXCEPT ![s].call = c]
               /\ UNCHANGED <<sem, errChan, totalSent, wgSend>>
          ELSE /\ senders' = [senders EXCEPT ![s].call = c, ![s].pc = "done"]
               /\ IF err # <<>>
                  THEN /\ errChan' = TrySendErr(errChan,
                                        Error("failed to send batch", sd.bID, err[1].attempts,
                                              err[1].cause))
                       /\ UNCHANGED totalSent
                  ELSE /\ totalSent' = totalSent + sd.bSize
                       /\ UNCHANGED errChan
               /\ sem' = sem - 1
               /\ wgSend' = wgSend - 1
    /\ UNCHANGED <<cfgVars, callVars, procVars, ingestVars, hpc, hret, entries, grouped, mpc, todo, cur, bi,
                   batchCount, sendRet>>

\* WaitReturn without the last look at errChan
WaitReturnNoCheck ==
    /\ mpc = "loop"
    /\ cur = <<>>
    /\ todo = {}
    /\ wgSend = 0
    /\ sendRet' = Returned(<<>>)
    /\ mpc' = "returned"
    /\ UNCHANGED <<cfgVars, callVars, procVars, ingestVars, hpc, hret, entries, grouped, todo, cur, bi, batchCount,
                   senders, sem, errChan, totalSent, wgSend>>

\* the range over grouped has ended: wg.Wait(), then the last look at errChan (550-561)
WaitReturn ==
    /\ mpc = "loop"
    /\ cur = <<>>
    /\ todo = {}
    /\ wgSend = 0
    /\ IF errChan # <<>>
       THEN /\ sendRet' = Returned(<<Head(errChan)>>)
            /\ errChan' = Tail(errChan)
       ELSE /\ sendRet' = Returned(<<>>)
            /\ UNCHANGED errChan
    /\ mpc' = "returned"
    /\ UNCHANGED <<cfgVars, callVars, procVars, ingestVars, hpc, hret, entries, grouped, todo, cur, bi, batchCount,
                   senders, sem, totalSent, wgSend>>

\* handler: convertAndSend returned (371-377)
HandlerAfterSend ==
    /\ hpc = "send"
    /\ mpc = "returned"
    /\ hret' = Returned(sendRet.err)
    /\ hpc' = "done"
    /\ UNCHANGED <<cfgVars, callVars, procVars, ingestVars, sendVars>>

(***************************************************************************)
(* Specification of the delivery of one object's entries.                  *)
(***************************************************************************)
\* largest MAX_BATCH_SIZE drawn for the delivery
MaxBatchCfg == 2
\* largest MAX_RETRIES drawn for the delivery
MaxRetriesCfg == 1

EntryUniverse == {EntryA, EntryC}

\* outcomes drawn for the attempts of the concurrent senders
SendOutcomes == {Resp(200), Resp(500)}

SendInit ==
    /\ ProcIdle
    /\ maxBatchSize \in 1..MaxBatchCfg
    /\ maxConcurrent \in 0..MaxConcurrentCfg
    /\ maxRetries \in 0..MaxRetriesCfg
    /\ body = [lines |-> <<>>, fail |-> "none"]
    /\ hpc = "send"
    /\ hret = Running
    /\ IngestIdle
    /\ entries \in SeqsUpTo(EntryUniverse, MaxEntries) \ {<<>>}
    /\ mpc = "group"
    /\ SendIdle

SendNext ==
    \/ GroupStep
    \/ NextGroup
    \/ CheckErrReturn
    \/ SpawnBatch
    \/ \E s \in 1..MaxEntries : Acquire(s)
    \/ \E s \in 1..MaxEntries, o \in SendOutcomes : Attempt(s, o)
    \/ WaitReturn
    \/ HandlerAfterSend

SpecSend == SendInit /\ [][SendNext]_vars

(***************************************************************************)
(* Specification of one call of sendWithRetry: a single sender that holds  *)
(* its permit, for every MAX_RETRIES up to MaxRetriesLong.                 *)
(***************************************************************************)
\* largest MAX_RETRIES drawn for the single call
MaxRetriesLong == 36

\* HTTP statuses drawn for the responses
Statuses == {199, 200, 299, 300, 404, 500}

Outcomes == {ReqErr, NetErr} \cup {Resp(st) : st \in Statuses}

RetryInit ==
    /\ ProcIdle
    /\ maxBatchSize = 1
    /\ maxConcurrent = 1
    /\ maxRetries \in 0..MaxRetriesLong
    /\ body = [lines |-> <<>>, fail |-> "none"]
    /\ hpc = "send"
    /\ hret = Running
    /\ IngestIdle
    /\ entries = <<EntryA>>
    /\ mpc = "loop"
    /\ grouped = GroupFrom(entries, <<>>)
    /\ todo = {}
    /\ cur = <<>>
    /\ bi = 1
    /\ batchCount = 1
    /\ senders = << [NewSender("tg1", 1, 0, 1,
                               buildPayload(grouped["tg1"].ResourceAttrs,
                                            grouped["tg1"].LogRecords))
                       EXCEPT !.pc = "send"] >>
    /\ sem = 1
    /\ errChan = <<>>
    /\ totalSent = 0
    /\ wgSend = 1
    /\ sendRet = Running

RetryNext == \E o \in Outcomes : Attempt(1, o)

SpecRetry == RetryInit /\ [][RetryNext]_vars

(***************************************************************************)
(* Properties of the ingestion pipeline (SpecIngest).                      *)
(***************************************************************************)
ReadReturned == hpc \in {"returned", "send", "done"}

\* C1: whatever the worker count and the interleaving, once readAndParseFromS3 has
\* returned for an object that could be opened, every line of the body was scanned,
\* no error is returned, and the returned entries are, as a multiset, the entries
\* the sequential loop keeps: a malformed, blank or comment line removes nothing
\* and nothing is duplicated.
C1_ConcurrentEqualsSequential ==
    (ReadReturned /\ body.fail # "open") =>
        /\ scanned = Len(body.lines)
        /\ chanPanic = FALSE
        /\ readRet.err = <<>>
        /\ BagOfSeq(readRet.entries) = BagOfSeq(SequentialParse(body.lines))

\* two workers raced on a body with a malformed line between valid ones and
\* returned the entries in another order than the file's
C1_Witness ==
    /\ hpc = "returned"
    /\ maxConcurrent >= 2
    /\ MalformedLine \in Range(body.lines)
    /\ Len(readRet.entries) >= 2
    /\ readRet.entries # SequentialParse(body.lines)

\* C2: when the body fails in mid-stream (read or decompression error, line over
\* 1 MB), readAndParseFromS3 returns an error and the handler does not hand the
\* partial entries to convertAndSend.
C2_StreamErrorSurfaced ==
    (ReadReturned /\ body.fail = "stream") =>
        /\ readRet.err # <<>>
        /\ hpc # "send"

(***************************************************************************)
(* Properties of sendWithRetry (SpecRetry).                                *)
(***************************************************************************)
Calls == {senders[s].call : s \in DOMAIN senders}

Succeeded(c) == c.ret.returned /\ c.ret.err = <<>>
Failed(c) == c.ret.returned /\ c.ret.err # <<>>

Is2xx(o) == o.kind = "resp" /\ o.status \in 200..299

\* C3: a call makes at most maxRetries+1 attempts; it goes on only after failed
\* attempts and returns at its first successful one, so a success after k failures
\* took exactly k+1 attempts (maxRetries+1 when only the last one succeeds); it
\* fails only after exactly maxRetries+1 failed attempts, with the cause of the last.
C3_RetryAttempts ==
    \A c \in Calls :
        /\ c.made <= maxRetries + 1
        /\ ~c.ret.returned => (c.made = c.attempt /\ ~Is2xx(c.lastOutcome))
        /\ Succeeded(c) => (c.made = c.attempt + 1 /\ Is2xx(c.lastOutcome))
        /\ Failed(c) =>
              /\ c.made = maxRetries + 1
              /\ ~Is2xx(c.lastOutcome)
              /\ c.ret.err[1].attempts = maxRetries + 1
              /\ c.ret.err[1].cause = c.lastOutcome

\* the first maxRetries attempts failed and the last one succeeded
C3_Witness ==
    \E c \in Calls :
        /\ maxRetries >= 2
        /\ Succeeded(c)
        /\ c.attempt = maxRetries
        /\ c.made = maxRetries + 1

\* retryBaseSec * 2^(n-1) seconds in nanoseconds, exact
ExactBackoff(n) == Shl(Mul(RetryBaseBits, SecondBits), n - 1)

\* C4: attempt 0 is made without a sleep, and the sleep taken before retry n is
\* exactly retryBaseSec * 2^(n-1) seconds, a positive duration, for every n up to
\* maxRetries.
C4_BackoffExact ==
    \A c \in Calls :
        /\ Len(c.slept) = (IF c.made = 0 THEN 0 ELSE c.made - 1)
        /\ \A n \in 1..Len(c.slept) :
              /\ c.slept[n] = ExactBackoff(n)
              /\ c.slept[n] # {}
              /\ ~IsNegative64(c.slept[n])

\* C5: the last attempt made ended the call with success exactly when it met a
\* response with a status in 200..299; any other outcome is the recorded last
\* failure cause, and the call goes on while attempts remain.
C5_SuccessIff2xx ==
    \A c \in Calls :
        c.made > 0 =>
            /\ Succeeded(c) <=> Is2xx(c.lastOutcome)
            /\ ~Is2xx(c.lastOutcome) =>
                  /\ c.lastErr = c.lastOutcome
                  /\ (c.attempt <= maxRetries) => ~c.ret.returned

\* a 404 response was recorded as the failure cause and the call goes on
C5_Witness ==
    \E c \in Calls :
        /\ c.lastErr = Resp(404)
        /\ c.lastOutcome = Resp(404)
        /\ ~c.ret.returned
        /\ c.attempt <= maxRetries

(***************************************************************************)
(* Properties of convertAndSend (SpecSend).                                *)
(***************************************************************************)
\* the senders that hold a permit: inside sendWithRetry, its sleeps included
Holders == {s \in DOMAIN senders : senders[s].pc = "send"}

\* C6: at most maxConcurrent senders hold a permit; the tokens in the semaphore
\* are exactly those of the senders between acquire and release, so a finished
\* sender, failed or not, has given its permit back and a sender that finds all
\* permits taken stays waiting.
C6_PermitBound ==
    /\ Cardinality(Holders) <= maxConcurrent
    /\ sem = Cardinality(Holders)

\* all permits are taken, a sender waits for one, and a failed sender has
\* released its own
C6_Witness ==
    /\ maxConcurrent >= 1
    /\ sem = maxConcurrent
    /\ \E s \in DOMAIN senders : senders[s].pc = "acquire"
    /\ \E s \in DOMAIN senders : senders[s].pc = "done" /\ Failed(senders[s].call)

\* C7: when convertAndSend has returned an error, no sender it started is still
\* in flight.
C7_ErrorAfterAllSendsDone ==
    (sendRet.returned /\ sendRet.err # <<>>) =>
        \A s \in DOMAIN senders : senders[s].pc = "done"

\* the senders of group k, in the order they were started
BatchesOf(k) == SelectSeq(senders, LAMBDA sd : sd.key = k)

PayloadRecords(sd) == sd.call.payload.ResourceLogs[1].ScopeLogs[1].LogRecords

RECURSIVE ConcatRecords(_)
ConcatRecords(bs) ==
    IF bs = <<>> THEN <<>> ELSE PayloadRecords(Head(bs)) \o ConcatRecords(Tail(bs))

\* C8: convertAndSend returns an error exactly when a batch it started has
\* exhausted its retries; when it returns nil, every group's records were all
\* submitted and every sender has finished with a success; no batch is started
\* twice.
C8_ErrorIffBatchFailed ==
    /\ sendRet.returned =>
          (sendRet.err # <<>> <=> \E s \in DOMAIN senders : Failed(senders[s].call))
    /\ (sendRet.returned /\ sendRet.err = <<>>) =>
          /\ \A s \in DOMAIN senders : senders[s].pc = "done" /\ Succeeded(senders[s].call)
          /\ \A k \in DOMAIN grouped : ConcatRecords(BatchesOf(k)) = grouped[k].LogRecords
    /\ \A s, t \in DOMAIN senders :
          (senders[s].key = senders[t].key /\ senders[s].lo = senders[t].lo) => s = t

\* convertAndSend returned nil after delivering the batches of two groups
C8_Witness ==
    /\ sendRet.returned
    /\ sendRet.err = <<>>
    /\ Cardinality(DOMAIN grouped) = 2
    /\ Len(senders) >= 2
    /\ \E s \in DOMAIN senders : senders[s].call.made > 1

\* the batch loop of group k has run to its end
LoopDone(k) == mpc \in {"loop", "returned"} /\ k \in DOMAIN grouped /\ k \notin todo /\ cur # <<k>>

CeilDiv(r, b) == (r + b - 1) \div b

C10_OneGroupPerPayload ==
    \A s \in DOMAIN senders :
        LET p == senders[s].call.payload
        IN /\ Len(p.ResourceLogs) = 1
           /\ Len(p.ResourceLogs[1].ScopeLogs) = 1
           /\ PayloadRecords(senders[s]) # <<>>
           /\ \E k \in DOMAIN grouped :
                 /\ \A i \in DOMAIN PayloadRecords(senders[s]) :
                        getResourceKey(PayloadRecords(senders[s])[i].Body) = k
                 /\ p.ResourceLogs[1].Resource.Attributes = grouped[k].ResourceAttrs

\* payloads of two groups with different attributes are in flight
C10_Witness ==
    \E s, t \in DOMAIN senders :
        /\ senders[s].key # senders[t].key
        /\ senders[s].call.payload.ResourceLogs[1].Resource.Attributes
              # senders[t].call.payload.ResourceLogs[1].Resource.Attributes
        /\ Len(PayloadRecords(senders[s])) = 2

(***************************************************************************)
(* Specification of the grouping loop of convertAndSend alone, over        *)
(* entries whose two ARN fields are empty, "-" or set.                     *)
(***************************************************************************)
\* longest entry list drawn for the grouping loop
MaxGroupEntries == 3

\* values of an ARN field of a parsed line: empty, the "-" of the log format, or set
GroupEntryUniverse ==
    [TargetGroupARN : {"", "-", "tg1"}, ChosenCertARN : {"", "-", "cert1"},
     ELB : {"lb1", "lb2"}]

GroupInit ==
    /\ ProcIdle
    /\ maxBatchSize = 1
    /\ maxConcurrent = 1
    /\ maxRetries = 0
    /\ body = [lines |-> <<>>, fail |-> "none"]
    /\ hpc = "send"
    /\ hret = Running
    /\ IngestIdle
    /\ entries \in SeqsUpTo(GroupEntryUniverse, MaxGroupEntries)
    /\ mpc = "group"
    /\ SendIdle

GroupNext == GroupStep

SpecGroup == GroupInit /\ [][GroupNext]_vars

(***************************************************************************)
(* Properties of the grouping loop (SpecGroup).                            *)
(***************************************************************************)
Grouped == mpc = "loop"

\* the entries with resource key k, in iteration order
EntriesWithKey(k) == SelectSeq(entries, LAMBDA e : getResourceKey(e) = k)

\* C11: after grouping, the keys of the map are the resource keys of the entries;
\* each group's attributes are those of the first entry with its key, and its
\* records are the records of exactly the entries with that key, in iteration order
C11_GroupingFirstAttrs ==
    Grouped =>
        /\ DOMAIN grouped = {getResourceKey(entries[i]) : i \in DOMAIN entries}
        /\ \A k \in DOMAIN grouped :
              LET es == EntriesWithKey(k)
              IN /\ es # <<>>
                 /\ grouped[k].ResourceAttrs = ExtractResourceAttributes(es[1])
                 /\ grouped[k].LogRecords = [i \in DOMAIN es |-> ConvertToOTel(es[i])]

\* a group of two entries with different attributes, with an entry of another
\* group between them
C11_Witness ==
    /\ Grouped
    /\ Len(entries) = 3
    /\ getResourceKey(entries[1]) = getResourceKey(entries[3])
    /\ getResourceKey(entries[1]) # getResourceKey(entries[2])
    /\ ExtractResourceAttributes(entries[1]) # ExtractResourceAttributes(entries[3])
    /\ Len(grouped[getResourceKey(entries[1])].LogRecords) = 2

\* a field of a parsed line counts as present when it is neither empty nor "-"
Present(f) == f # "" /\ f # "-"

\* the resource key as stated: the target-group ARN when present, otherwise the
\* certificate ARN when present, otherwise the empty string
StatedResourceKey(e) ==
    IF Present(e.TargetGroupARN) THEN e.TargetGroupARN
    ELSE IF Present(e.ChosenCertARN) THEN e.ChosenCertARN
    ELSE ""

\* C12: the resource key of every entry is the target-group ARN when that field
\* is present, otherwise the certificate ARN, "" and "-" counting as absent; it is
\* the empty string when neither field is present
C12_ResourceKey ==
    Grouped => DOMAIN grouped = {StatedResourceKey(entries[i]) : i \in DOMAIN entries}

(***************************************************************************)
(* Strings of package processor and package parser: a string is the        *)
(* sequence of its tokens, a token being one separator character or a run  *)
(* of text that holds no separator.                                        *)
(***************************************************************************)
\* strings.HasPrefix, strings.HasSuffix
HasPrefix(str, prefix) ==
    Len(str) >= Len(prefix) /\ SubSeq(str, 1, Len(prefix)) = prefix

HasSuffix(str, suffix) ==
    Len(str) >= Len(suffix) /\ SubSeq(str, Len(str) - Len(suffix) + 1, Len(str)) = suffix

\* strings.Index: the offset of the first occurrence of substr, -1 when there is none
RECURSIVE IndexFrom(_, _, _)
IndexFrom(str, substr, off) ==
    IF Len(str) < Len(substr) THEN -1
    ELSE IF HasPrefix(str, substr) THEN off
    ELSE IndexFrom(Tail(str), substr, off + 1)

Index(str, substr) == IndexFrom(str, substr, 0)

\* strings.Contains
Contains(str, substr) == Index(str, substr) >= 0

\* strings.Split on a one-character separator: the pieces between the separators
RECURSIVE Split(_, _)
Split(str, sep) ==
    LET seps == {i \in DOMAIN str : str[i] = sep}
    IN IF seps = {} THEN <<str>>
       ELSE <<SubSeq(str, 1, SetMin(seps) - 1)>>
            \o Split(SubSeq(str, SetMin(seps) + 1, Len(str)), sep)

\* strings.Join
RECURSIVE Join(_, _)
Join(pieces, sep) ==
    IF pieces = <<>> THEN <<>>
    ELSE IF Len(pieces) = 1 THEN pieces[1]
    ELSE pieces[1] \o <<sep>> \o Join(Tail(pieces), sep)

(***************************************************************************)
(* The adapters' GetResourceAttributes (build.sh:124-167,                  *)
(* part_001:151-174).  An attribute is a pair <<key, value>>.              *)
(***************************************************************************)
\* WAFAdapter.GetResourceAttributes that prefers the account and region of the S3 key
WAFGetResourceAttributesKeyFirst(a) ==
    LET parts == Split(a.WebACLID, ":")
        isArn == a.WebACLID # <<>> /\ Len(parts) >= 6
        extractedRegion == IF ~isArn THEN <<>>
                           ELSE IF parts[4] = <<>> THEN <<"global">> ELSE parts[4]
        extractedAccount == IF isArn THEN parts[5] ELSE <<>>
        finalAccount == IF a.AccountID = <<>> THEN extractedAccount ELSE a.AccountID
        finalRegion == IF a.Region = <<>> THEN extractedRegion ELSE a.Region
    IN << <<"cloud.provider", <<"aws">> >>, <<"cloud.platform", <<"aws_waf">> >>,
          <<"cloud.service", <<"waf">> >>, <<"aws.waf.web_acl_id", a.WebACLID>> >>
       \o (IF finalAccount # <<>> THEN << <<"cloud.account.id", finalAccount>> >> ELSE <<>>)
       \o (IF finalRegion # <<>> THEN << <<"cloud.region", finalRegion>> >> ELSE <<>>)

\* WAFAdapter.GetResourceAttributes (build.sh:124-167)
WAFGetResourceAttributes(a) ==
    LET parts == Split(a.WebACLID, ":")
        isArn == a.WebACLID # <<>> /\ Len(parts) >= 6
        extractedRegion == IF ~isArn THEN <<>>
                           ELSE IF parts[4] = <<>> THEN <<"global">> ELSE parts[4]
        extractedAccount == IF isArn THEN parts[5] ELSE <<>>
        finalAccount == IF extractedAccount = <<>> THEN a.AccountID ELSE extractedAccount
        finalRegion == IF extractedRegion = <<>> THEN a.Region ELSE extractedRegion
    IN << <<"cloud.provider", <<"aws">> >>, <<"cloud.platform", <<"aws_waf">> >>,
          <<"cloud.service", <<"waf">> >>, <<"aws.waf.web_acl_id", a.WebACLID>> >>
       \o (IF finalAccount # <<>> THEN << <<"cloud.account.id", finalAccount>> >> ELSE <<>>)
       \o (IF finalRegion # <<>> THEN << <<"cloud.region", finalRegion>> >> ELSE <<>>)

\* ALBAdapter.GetResourceAttributes that adds the key-derived values without
\* testing them for the empty string
ALBGetResourceAttributesNoEmptyTest(a) ==
    LET attrs == ExtractResourceAttributes(a.ALBLogEntry)
        hasAccount == \E i \in DOMAIN attrs : attrs[i][1] = "cloud.account.id"
        hasRegion == \E i \in DOMAIN attrs : attrs[i][1] = "cloud.region"
    IN attrs
       \o (IF ~hasAccount THEN << <<"cloud.account.id", a.AccountID>> >> ELSE <<>>)
       \o (IF ~hasRegion THEN << <<"cloud.region", a.Region>> >> ELSE <<>>)

\* ALBAdapter.GetResourceAttributes (part_001:151-174)
ALBGetResourceAttributes(a) ==
    LET attrs == ExtractResourceAttributes(a.ALBLogEntry)
        hasAccount == \E i \in DOMAIN attrs : attrs[i][1] = "cloud.account.id"
        hasRegion == \E i \in DOMAIN attrs : attrs[i][1] = "cloud.region"
    IN attrs
       \o (IF ~hasAccount /\ a.AccountID # ""
           THEN << <<"cloud.account.id", a.AccountID>> >> ELSE <<>>)
       \o (IF ~hasRegion /\ a.Region # ""
           THEN << <<"cloud.region", a.Region>> >> ELSE <<>>)

\* a call of WAFAdapter.GetResourceAttributes
WAFAdapterCall ==
    /\ attrCall.pc = "call"
    /\ attrCall.kind = "waf"
    /\ attrCall' = [attrCall EXCEPT !.pc = "done",
                                    !.attrs = WAFGetResourceAttributes(attrCall.adapter)]
    /\ UNCHANGED <<cfgVars, callVars, ingestVars, sendVars, hpc, hret, keyCall, dispatch, inv, fetch,
                   cfCall>>

\* a call of ALBAdapter.GetResourceAttributes
ALBAdapterCall ==
    /\ attrCall.pc = "call"
    /\ attrCall.kind = "alb"
    /\ attrCall' = [attrCall EXCEPT !.pc = "done",
                                    !.attrs = ALBGetResourceAttributes(attrCall.adapter)]
    /\ UNCHANGED <<cfgVars, callVars, ingestVars, sendVars, hpc, hret, keyCall, dispatch, inv, fetch,
                   cfCall>>

\* most colon-separated pieces of a web-ACL identifier drawn
MaxSegs == 6

\* the pieces of an identifier: empty, a region, an account number
SegUniverse == {<<>>, <<"ap-south-1">>, <<"123456789012">>}

\* WAFAdapter values: any identifier of up to MaxSegs pieces, with and without
\* an account and a region from the S3 key
WAFAdapters ==
    [WebACLID : {Join(segs, ":") : segs \in SeqsUpTo(SegUniverse, MaxSegs)},
     AccountID : {<<>>, <<"999999999999">>},
     Region : {<<>>, <<"eu-west-1">>}]

\* ALBAdapter values: entries whose ARN has an account and a region, an account
\* only, or neither
ALBAdapters ==
    [ALBLogEntry : [TargetGroupARN : {"-", "tg1"}, ChosenCertARN : {"-", "iamcert"},
                    ELB : {"lb1"}],
     AccountID : {"", "999999999999"},
     Region : {"", "eu-west-1"}]

\* every part of the model other than the processor package is idle
PipelineIdle ==
    /\ maxBatchSize = 1
    /\ maxConcurrent = 1
    /\ maxRetries = 0
    /\ body = [lines |-> <<>>, fail |-> "none"]
    /\ hpc = "idle"
    /\ hret = Running
    /\ IngestIdle
    /\ entries = <<>>
    /\ mpc = "idle"
    /\ SendIdle

AttrsInit ==
    /\ PipelineIdle
    /\ CallIdle
    /\ attrCall \in [pc : {"call"}, kind : {"waf"}, adapter : WAFAdapters, attrs : {<<>>}]
                    \cup [pc : {"call"}, kind : {"alb"}, adapter : ALBAdapters, attrs : {<<>>}]
    /\ keyCall = [pc |-> "idle"]
    /\ dispatch = [pc |-> "idle"]
    /\ inv = [pc |-> "idle"]
    /\ fetch = [pc |-> "idle"]
    /\ cfCall = [pc |-> "idle"]
    /\ nlbCall = [pc |-> "idle"]

AttrsNext == WAFAdapterCall \/ ALBAdapterCall

SpecAttrs == AttrsInit /\ [][AttrsNext]_vars

(***************************************************************************)
(* Properties of the adapters' attributes (SpecAttrs).                     *)
(***************************************************************************)
\* the values the attribute list holds for a key, in order
ValuesOf(attrs, k) ==
    LET hits == SelectSeq(attrs, LAMBDA at : at[1] = k)
    IN [i \in DOMAIN hits |-> hits[i][2]]

\* the positions of the colons of an identifier
Colons(str) == {i \in DOMAIN str : str[i] = ":"}

\* the position that ends piece k - 1 and starts piece k (pieces count from 0)
PieceStart(str, k) ==
    IF k = 0 THEN 0
    ELSE IF k > Cardinality(Colons(str)) THEN Len(str) + 1
    ELSE CHOOSE i \in Colons(str) : Cardinality({j \in Colons(str) : j <= i}) = k

\* colon-segment k of an identifier
Segment(str, k) == SubSeq(str, PieceStart(str, k) + 1, PieceStart(str, k + 1) - 1)

\* an identifier is an ARN when it has at least six colon-segments
IsArn(str) == Cardinality(Colons(str)) >= 5

WAFDone == attrCall.pc = "done" /\ attrCall.kind = "waf"

\* C13: for an ARN identifier the region attribute is segment 3 ("global" when
\* that segment is empty) and the account attribute is segment 4, whatever the
\* key-derived values are; the key-derived value is used only when the
\* identifier yields none, and the attribute is absent when neither yields one
C13_WAFAttributes ==
    WAFDone =>
        LET a == attrCall.adapter
            id == a.WebACLID
            account == ValuesOf(attrCall.attrs, "cloud.account.id")
            region == ValuesOf(attrCall.attrs, "cloud.region")
            fromKey(v) == IF v = <<>> THEN <<>> ELSE <<v>>
        IN /\ IsArn(id) =>
                region = IF Segment(id, 3) = <<>> THEN << <<"global">> >>
                         ELSE <<Segment(id, 3)>>
           /\ IsArn(id) /\ Segment(id, 4) # <<>> => account = <<Segment(id, 4)>>
           /\ IsArn(id) /\ Segment(id, 4) = <<>> => account = fromKey(a.AccountID)
           /\ ~IsArn(id) => account = fromKey(a.AccountID) /\ region = fromKey(a.Region)

\* an ARN with a region and an account, attributes taken from it although the
\* S3 key gave other values
C13_Witness ==
    /\ WAFDone
    /\ IsArn(attrCall.adapter.WebACLID)
    /\ Segment(attrCall.adapter.WebACLID, 3) = <<"ap-south-1">>
    /\ Segment(attrCall.adapter.WebACLID, 4) = <<"123456789012">>
    /\ attrCall.adapter.AccountID = <<"999999999999">>
    /\ attrCall.adapter.Region = <<"eu-west-1">>
    /\ ValuesOf(attrCall.attrs, "cloud.account.id") = << <<"123456789012">> >>
    /\ ValuesOf(attrCall.attrs, "cloud.region") = << <<"ap-south-1">> >>

ALBDone == attrCall.pc = "done" /\ attrCall.kind = "alb"

\* C14: the attributes of a load-balancer adapter hold cloud.account.id and
\* cloud.region at most once and never empty; an ARN-derived value is kept, the
\* key-derived value is added only when the ARN gave none and it is not empty;
\* the provider, platform and service constants are always there
C14_ALBAttributes ==
    ALBDone =>
        LET a == attrCall.adapter
            fromArn == ExtractResourceAttributes(a.ALBLogEntry)
            fromKey(v) == IF v = "" THEN <<>> ELSE <<v>>
        IN /\ \A k \in {"cloud.account.id", "cloud.region"} :
                 /\ Len(ValuesOf(attrCall.attrs, k)) <= 1
                 /\ \A i \in DOMAIN ValuesOf(attrCall.attrs, k) :
                       ValuesOf(attrCall.attrs, k)[i] # ""
                 /\ ValuesOf(fromArn, k) # <<>> =>
                       ValuesOf(attrCall.attrs, k) = ValuesOf(fromArn, k)
           /\ ValuesOf(fromArn, "cloud.account.id") = <<>> =>
                 ValuesOf(attrCall.attrs, "cloud.account.id") = fromKey(a.AccountID)
           /\ ValuesOf(fromArn, "cloud.region") = <<>> =>
                 ValuesOf(attrCall.attrs, "cloud.region") = fromKey(a.Region)
           /\ \A k \in {"cloud.provider", "cloud.platform", "cloud.service"} :
                 Len(ValuesOf(attrCall.attrs, k)) = 1

\* an entry whose ARN has an account but no region: the account of the ARN is
\* kept and the region of the S3 key is added
C14_Witness ==
    /\ ALBDone
    /\ attrCall.adapter.AccountID = "999999999999"
    /\ attrCall.adapter.Region = "eu-west-1"
    /\ ValuesOf(attrCall.attrs, "cloud.account.id") = <<"777788889999">>
    /\ ValuesOf(attrCall.attrs, "cloud.region") = <<"eu-west-1">>

(***************************************************************************)
(* ParseRegionAccountFromS3Key (part_000:10-20).  The tokens of a key are  *)
(* "/", the literal "AWSLogs", two digits and a letter.                    *)
(***************************************************************************)
KeyAlphabet == {"AWSLogs", "/", "1", "2", "x"}

\* \d and [^/]
Digits == {"1", "2"}
NotSlash == KeyAlphabet \ {"/"}

\* the length of the longest run of tokens of class cls that starts at position from
RECURSIVE RunLen(_, _, _)
RunLen(str, from, cls) ==
    IF from > Len(str) \/ str[from] \notin cls THEN 0
    ELSE 1 + RunLen(str, from + 1, cls)

\* the match of AWSLogs/(\d+)/[^/]+/([^/]+)/ that begins at position p: the
\* whole match and the two groups, or <<>> when the pattern does not match there
MatchAt(str, p) ==
    LET d == RunLen(str, p + 2, Digits)
        svcAt == p + 2 + d + 1
        sv == RunLen(str, svcAt, NotSlash)
        regAt == svcAt + sv + 1
        rg == RunLen(str, regAt, NotSlash)
        end == regAt + rg
    IN IF /\ p + 1 <= Len(str) /\ str[p] = "AWSLogs" /\ str[p + 1] = "/"
          /\ d >= 1 /\ svcAt - 1 <= Len(str) /\ str[svcAt - 1] = "/"
          /\ sv >= 1 /\ regAt - 1 <= Len(str) /\ str[regAt - 1] = "/"
          /\ rg >= 1 /\ end <= Len(str) /\ str[end] = "/"
       THEN << SubSeq(str, p, end), SubSeq(str, p + 2, p + 1 + d),
               SubSeq(str, regAt, end - 1) >>
       ELSE <<>>

\* a search that returns the rightmost match
FindStringSubmatchLast(str) ==
    LET starts == {p \in DOMAIN str : MatchAt(str, p) # <<>>}
    IN IF starts = {} THEN <<>>
       ELSE MatchAt(str, CHOOSE p \in starts : \A q \in starts : q <= p)

\* awsLogsKeyPattern.FindStringSubmatch: the leftmost match, nil when there is none
FindStringSubmatch(str) ==
    LET starts == {p \in DOMAIN str : MatchAt(str, p) # <<>>}
    IN IF starts = {} THEN <<>>
       ELSE MatchAt(str, CHOOSE p \in starts : \A q \in starts : p <= q)

\* ParseRegionAccountFromS3Key (part_000:13-20): <<account, region>>
ParseRegionAccountFromS3Key(k) ==
    LET matches == FindStringSubmatch(k)
    IN IF Len(matches) >= 3 THEN <<matches[2], matches[3]>> ELSE << <<>>, <<>> >>

KeyCall ==
    /\ keyCall.pc = "call"
    /\ LET r == ParseRegionAccountFromS3Key(keyCall.key)
       IN keyCall' = [keyCall EXCEPT !.pc = "done", !.account = r[1], !.region = r[2]]
    /\ UNCHANGED <<cfgVars, callVars, ingestVars, sendVars, hpc, hret, attrCall, dispatch, inv, fetch,
                   cfCall>>

\* most pieces a drawn key is put together from
MaxKeyPieces == 5

\* the pieces of a key: single tokens, and the parts of the layout of AWS log keys
KeyPieces ==
    {<<"AWSLogs">>, <<"/">>, <<"1">>, <<"x">>, <<"AWSLogs", "/", "1", "/">>,
     <<"AWSLogs", "/", "2", "/">>, <<"x", "/">>}

RECURSIVE Concat(_)
Concat(pieces) == IF pieces = <<>> THEN <<>> ELSE Head(pieces) \o Concat(Tail(pieces))

KeyInit ==
    /\ PipelineIdle
    /\ CallIdle
    /\ keyCall \in [pc : {"call"},
                    key : {Concat(ps) : ps \in SeqsUpTo(KeyPieces, MaxKeyPieces)},
                    account : {<<>>}, region : {<<>>}]
    /\ attrCall = [pc |-> "idle"]
    /\ dispatch = [pc |-> "idle"]
    /\ inv = [pc |-> "idle"]
    /\ fetch = [pc |-> "idle"]
    /\ cfCall = [pc |-> "idle"]
    /\ nlbCall = [pc |-> "idle"]

KeyNext == KeyCall

SpecKey == KeyInit /\ [][KeyNext]_vars

(***************************************************************************)
(* Properties of ParseRegionAccountFromS3Key (SpecKey).                    *)
(***************************************************************************)
AllIn(str, cls) == \A i \in DOMAIN str : str[i] \in cls

Slashes(k) == {i \in DOMAIN k : k[i] = "/"}

\* the key holds AWSLogs/<digits>/ from position p on, the second slash at a
AccountAt(k, p, a) ==
    /\ k[p] = "AWSLogs" /\ p + 1 \in Slashes(k)
    /\ a > p + 2 /\ AllIn(SubSeq(k, p + 2, a - 1), Digits)

\* a non-empty piece without a slash lies between the slashes at a and b
PieceBetween(k, a, b) == b > a + 1 /\ AllIn(SubSeq(k, a + 1, b - 1), NotSlash)

\* the key holds the layout AWSLogs/<digits>/<service>/<region>/ from position
\* p on, with the second, third and fourth slash at a, b and c
LayoutAt(k, p, a, b, c) ==
    AccountAt(k, p, a) /\ PieceBetween(k, a, b) /\ PieceBetween(k, b, c)

OccursAt(k, p) ==
    \E a \in Slashes(k) :
        /\ AccountAt(k, p, a)
        /\ \E b \in Slashes(k) :
              /\ PieceBetween(k, a, b)
              /\ \E c \in Slashes(k) : PieceBetween(k, b, c)

\* C15: the result is the account and the region of the leftmost occurrence of
\* the layout in the key, and two empty strings when the key has none; the two
\* results are both empty or both non-empty
C15_KeyAccountRegion ==
    keyCall.pc = "done" =>
        LET k == keyCall.key
            occ == {p \in DOMAIN k : OccursAt(k, p)}
            first == {p \in occ : \A q \in occ : p <= q}
        IN /\ occ = {} => keyCall.account = <<>> /\ keyCall.region = <<>>
           /\ \A p \in first :
                 \E a \in Slashes(k) :
                    /\ AccountAt(k, p, a)
                    /\ keyCall.account = SubSeq(k, p + 2, a - 1)
                    /\ \E b \in Slashes(k) :
                          /\ PieceBetween(k, a, b)
                          /\ \E c \in Slashes(k) :
                                /\ PieceBetween(k, b, c)
                                /\ keyCall.region = SubSeq(k, b + 1, c - 1)
           /\ (keyCall.account = <<>>) <=> (keyCall.region = <<>>)

\* a key with two occurrences of the layout, whose first one gives the result
C15_Witness ==
    /\ keyCall.pc = "done"
    /\ keyCall.key = <<"AWSLogs", "/", "1", "/", "AWSLogs", "/", "2", "/", "x", "/", "x", "/">>
    /\ keyCall.account = <<"1">>
    /\ keyCall.region = <<"2">>

(***************************************************************************)
(* The processors' Matches predicates (build.sh:57-59, part_001:115-117)   *)
(* and the selection of a processor for an object.  The tokens of a bucket *)
(* name are "aws-waf-logs", "-" and a run of other text; those of a key    *)
(* are "/", "_", the words the predicates look for, and other text.        *)
(***************************************************************************)
\* WAFProcessor.Matches that does not look at the bucket
WAFMatchesAnyBucket(b, k) ==
    /\ Contains(k, <<"/", "WAFLogs", "/">>)
    /\ Contains(k, <<"_", "waflogs", "_">>)

\* WAFProcessor.Matches (build.sh:57-59)
WAFMatches(b, k) ==
    /\ HasPrefix(b, <<"aws-waf-logs", "-">>)
    /\ Contains(k, <<"/", "WAFLogs", "/">>)
    /\ Contains(k, <<"_", "waflogs", "_">>)

\* ALBProcessor.Matches (part_001:115-117)
ALBMatches(b, k) ==
    /\ Contains(k, <<"/", "elasticloadbalancing", "/">>)
    /\ Contains(k, <<"_", "app.">>)

\* Matches of the processor with the given Name()
Matches(name, b, k) == IF name = "WAF" THEN WAFMatches(b, k) ELSE ALBMatches(b, k)

\* a selection that goes on after a match, so that the last match wins
TryProcessorLastMatch ==
    /\ dispatch.pc = "select"
    /\ dispatch.i <= Len(dispatch.registry)
    /\ LET name == dispatch.registry[dispatch.i]
           m == Matches(name, dispatch.bucket, dispatch.key)
       IN dispatch' = [dispatch EXCEPT
                          !.tried = Append(@, [name |-> name, matched |-> m]),
                          !.selected = IF m THEN <<name>> ELSE @,
                          !.i = @ + 1,
                          !.pc = IF dispatch.i = Len(dispatch.registry) /\ (m \/ dispatch.selected # <<>>)
                                 THEN "done" ELSE "select"]
    /\ UNCHANGED <<cfgVars, callVars, ingestVars, sendVars, hpc, hret, attrCall, keyCall, inv, fetch,
                   cfCall>>

\* the selection asks the next processor of the registry, in registration order,
\* and stops at the first whose Matches is true
TryProcessor ==
    /\ dispatch.pc = "select"
    /\ dispatch.i <= Len(dispatch.registry)
    /\ LET name == dispatch.registry[dispatch.i]
           m == Matches(name, dispatch.bucket, dispatch.key)
       IN dispatch' = [dispatch EXCEPT
                          !.tried = Append(@, [name |-> name, matched |-> m]),
                          !.selected = IF m THEN <<name>> ELSE @,
                          !.i = @ + 1,
                          !.pc = IF m THEN "done" ELSE "select"]
    /\ UNCHANGED <<cfgVars, callVars, ingestVars, sendVars, hpc, hret, attrCall, keyCall, inv, fetch,
                   cfCall>>

\* no processor of the registry matched: the object is unsupported
DispatchMiss ==
    /\ dispatch.pc = "select"
    /\ dispatch.i > Len(dispatch.registry)
    /\ dispatch' = [dispatch EXCEPT !.pc = "unsupported"]
    /\ UNCHANGED <<cfgVars, callVars, ingestVars, sendVars, hpc, hret, attrCall, keyCall, inv, fetch,
                   cfCall>>

\* most pieces a drawn object key is put together from
MaxDispatchPieces == 4

\* the pieces of an object key: single tokens and the markers of the two formats
DispatchKeyPieces ==
    {<<"/">>, <<"_">>, <<"x">>, <<"WAFLogs">>, <<"waflogs">>,
     <<"/", "WAFLogs", "/">>, <<"_", "waflogs", "_">>,
     <<"/", "elasticloadbalancing", "/">>, <<"_", "app.">>}

Buckets ==
    {<<"x">>, <<"aws-waf-logs">>, <<"aws-waf-logs", "-", "x">>, <<"x", "aws-waf-logs", "-">>}

\* the orders in which the two processors can be registered
Registries == {<<"WAF", "ALB">>, <<"ALB", "WAF">>}

DispatchInit ==
    /\ PipelineIdle
    /\ CallIdle
    /\ dispatch \in [pc : {"select"}, bucket : Buckets,
                     key : {Concat(ps) : ps \in SeqsUpTo(DispatchKeyPieces, MaxDispatchPieces)},
                     registry : Registries, i : {1}, tried : {<<>>}, selected : {<<>>}]
    /\ attrCall = [pc |-> "idle"]
    /\ keyCall = [pc |-> "idle"]
    /\ inv = [pc |-> "idle"]
    /\ fetch = [pc |-> "idle"]
    /\ cfCall = [pc |-> "idle"]
    /\ nlbCall = [pc |-> "idle"]

DispatchNext == TryProcessor \/ DispatchMiss

SpecDispatch == DispatchInit /\ [][DispatchNext]_vars

(***************************************************************************)
(* Properties of the selection (SpecDispatch).                             *)
(***************************************************************************)
\* the string holds the word somewhere / at its start
Occurs(str, word) ==
    \E i \in 1..(Len(str) - Len(word) + 1) : SubSeq(str, i, i + Len(word) - 1) = word

StartsWith(str, word) ==
    \E rest \in {SubSeq(str, Len(word) + 1, Len(str))} : str = word \o rest

FirewallObject(b, k) ==
    /\ StartsWith(b, <<"aws-waf-logs", "-">>)
    /\ Occurs(k, <<"/", "WAFLogs", "/">>)
    /\ Occurs(k, <<"_", "waflogs", "_">>)

LoadBalancerObject(k) ==
    Occurs(k, <<"/", "elasticloadbalancing", "/">>) /\ Occurs(k, <<"_", "app.">>)

\* the processors of the registry whose Matches is true, by their position
Matching == {i \in DOMAIN dispatch.registry :
                Matches(dispatch.registry[i], dispatch.bucket, dispatch.key)}

\* C16: the selection ends with the first processor, in registration order, whose
\* Matches is true, also for an object that more than one processor matches, and
\* with none when no processor matches
C16_FirstMatchWins ==
    /\ dispatch.pc = "done" =>
          /\ Matching # {}
          /\ \E i \in Matching :
                /\ \A j \in Matching : i <= j
                /\ dispatch.selected = <<dispatch.registry[i]>>
    /\ dispatch.pc = "unsupported" => Matching = {} /\ dispatch.selected = <<>>

\* an object that both processors match, selected by the load-balancer processor
\* because it was registered first
C16_Witness ==
    /\ dispatch.pc = "done"
    /\ Cardinality(Matching) = 2
    /\ dispatch.registry = <<"ALB", "WAF">>
    /\ dispatch.selected = <<"ALB">>

\* C18: the firewall processor matches exactly the objects whose bucket starts
\* with "aws-waf-logs-" and whose key holds "/WAFLogs/" and "_waflogs_"; the
\* load-balancer processor matches exactly the keys that hold
\* "/elasticloadbalancing/" and "_app."; the firewall processor never matches a
\* load-balancer object of a bucket without the firewall prefix
C18_MatchesPredicates ==
    \A t \in DOMAIN dispatch.tried :
        LET r == dispatch.tried[t]
        IN /\ r.name = "WAF" => (r.matched <=> FirewallObject(dispatch.bucket, dispatch.key))
           /\ r.name = "ALB" => (r.matched <=> LoadBalancerObject(dispatch.key))
           /\ r.name = "WAF" /\ LoadBalancerObject(dispatch.key)
                 /\ ~StartsWith(dispatch.bucket, <<"aws-waf-logs", "-">>) => ~r.matched

\* a key with the markers of both formats in a bucket without the firewall
\* prefix: asked first, the firewall processor does not match, the next one does
C18_Witness ==
    /\ dispatch.pc = "done"
    /\ dispatch.bucket = <<"x", "aws-waf-logs", "-">>
    /\ Occurs(dispatch.key, <<"/", "WAFLogs", "/">>)
    /\ Occurs(dispatch.key, <<"_", "waflogs", "_">>)
    /\ dispatch.tried = << [name |-> "WAF", matched |-> FALSE],
                           [name |-> "ALB", matched |-> TRUE] >>

(***************************************************************************)
(* The handler's loop over the objects of one invocation (part_005:        *)
(* 346-378), with the selection of a processor in front of each object.    *)
(* An object is given by what the calls made for it return: whether a      *)
(* processor matches it, what reading it yields, and whether the delivery  *)
(* of its entries succeeds.  scan tells whether the scan of the object's   *)
(* lines ended on an error: readAndParseFromS3 logs it and returns the     *)
(* entries read so far with a nil error (part_005:443-445), so the handler *)
(* never sees it.                                                          *)
(***************************************************************************)
Objects ==
    [supported : {FALSE}, read : {"none"}, scan : {"none"}, send : {"none"}]
    \cup [supported : {TRUE}, read : {"error"}, scan : {"none"}, send : {"none"}]
    \cup [supported : {TRUE}, read : {"empty"}, scan : {"ok", "error"}, send : {"none"}]
    \cup [supported : {TRUE}, read : {"entries"}, scan : {"ok", "error"}, send : {"ok", "error"}]

\* the object the loop is at
InvObject == inv.records[inv.i]

\* the selection for the next object: an object no processor matches is logged
\* and skipped
InvDispatch ==
    /\ inv.pc = "dispatch"
    /\ inv.i <= Len(inv.records)
    /\ inv' = IF InvObject.supported
              THEN [inv EXCEPT !.pc = "read"]
              ELSE [inv EXCEPT !.i = @ + 1]
    /\ UNCHANGED <<cfgVars, callVars, ingestVars, sendVars, hpc, hret, attrCall, keyCall, dispatch,
                   fetch, cfCall>>

\* a handler that returns nil at an object without entries
InvReadReturnsOnEmpty ==
    /\ inv.pc = "read"
    /\ inv' = CASE InvObject.read = "error" ->
                     [inv EXCEPT !.pc = "returned",
                                 !.ret = Returned(<<Error("failed to get S3 object", 0, 0, NoCause)>>)]
                [] InvObject.read = "empty" ->
                     [inv EXCEPT !.pc = "returned", !.ret = Returned(<<>>)]
                [] OTHER -> [inv EXCEPT !.pc = "send"]
    /\ UNCHANGED <<cfgVars, callVars, ingestVars, sendVars, hpc, hret, attrCall, keyCall, dispatch,
                   fetch, cfCall>>

\* entries, err := readAndParseFromS3(bucket, key) and the two tests on its
\* result (356-367)
InvRead ==
    /\ inv.pc = "read"
    /\ inv' = CASE InvObject.read = "error" ->
                     [inv EXCEPT !.pc = "returned",
                                 !.ret = Returned(<<Error("failed to get S3 object", 0, 0, NoCause)>>)]
                [] InvObject.read = "empty" ->
                     [inv EXCEPT !.pc = "dispatch", !.i = @ + 1]
                [] OTHER -> [inv EXCEPT !.pc = "send"]
    /\ UNCHANGED <<cfgVars, callVars, ingestVars, sendVars, hpc, hret, attrCall, keyCall, dispatch,
                   fetch, cfCall>>

\* convertAndSend(entries) and the test on its result (370-374)
InvSend ==
    /\ inv.pc = "send"
    /\ inv' = IF InvObject.send = "error"
              THEN [inv EXCEPT !.sent = Append(@, inv.i), !.pc = "returned",
                               !.ret = Returned(<<Error("failed to send batch", 1, 1, NoCause)>>)]
              ELSE [inv EXCEPT !.sent = Append(@, inv.i), !.pc = "dispatch", !.i = @ + 1]
    /\ UNCHANGED <<cfgVars, callVars, ingestVars, sendVars, hpc, hret, attrCall, keyCall, dispatch,
                   fetch, cfCall>>

\* the end of the loop: return nil (377)
InvReturn ==
    /\ inv.pc = "dispatch"
    /\ inv.i > Len(inv.records)
    /\ inv' = [inv EXCEPT !.pc = "returned", !.ret = Returned(<<>>)]
    /\ UNCHANGED <<cfgVars, callVars, ingestVars, sendVars, hpc, hret, attrCall, keyCall, dispatch,
                   fetch, cfCall>>

\* most objects of one invocation
MaxObjects == 3

InvInit ==
    /\ PipelineIdle
    /\ CallIdle
    /\ inv \in [pc : {"dispatch"}, records : SeqsUpTo(Objects, MaxObjects), i : {1},
                sent : {<<>>}, ret : {Running}]
    /\ attrCall = [pc |-> "idle"]
    /\ keyCall = [pc |-> "idle"]
    /\ dispatch = [pc |-> "idle"]
    /\ fetch = [pc |-> "idle"]
    /\ cfCall = [pc |-> "idle"]
    /\ nlbCall = [pc |-> "idle"]

InvNext == InvDispatch \/ InvRead \/ InvSend \/ InvReturn

SpecHandler == InvInit /\ [][InvNext]_vars

(***************************************************************************)
(* Properties of the handler's loop (SpecHandler).                         *)
(***************************************************************************)
\* an object that no processor matches or that yields no entries
Skipped(o) == ~o.supported \/ o.read = "empty"

\* an object whose reading or delivery fails
Failing(o) == o.supported /\ (o.read = "error" \/ o.send = "error")

\* the objects in front of the first failing one, that one included
Reached ==
    {j \in DOMAIN inv.records : \A q \in 1..(j - 1) : ~Failing(inv.records[q])}

\* C17: an object that no processor matches, or that yields no entries, is never
\* delivered and never makes the invocation fail, and the objects after it are
\* processed: at the return every object with entries in front of the first
\* failing object has been delivered, and the invocation fails only when an
\* object's reading or delivery failed
C17_SkippedObjectsHarmless ==
    /\ \A n \in DOMAIN inv.sent : ~Skipped(inv.records[inv.sent[n]])
    /\ inv.pc = "returned" =>
          /\ inv.ret.err # <<>> <=> \E j \in DOMAIN inv.records : Failing(inv.records[j])
          /\ inv.ret.err # <<>> => Failing(inv.records[inv.i])
          /\ {inv.sent[n] : n \in DOMAIN inv.sent} =
                {j \in Reached : inv.records[j].read = "entries"}

\* an object no processor matches, then one without entries, then one that is
\* delivered; the invocation succeeds
C17_Witness ==
    /\ inv.pc = "returned"
    /\ Len(inv.records) = 3
    /\ ~inv.records[1].supported
    /\ inv.records[2].read = "empty"
    /\ inv.records[3].read = "entries"
    /\ inv.sent = <<3>>
    /\ inv.ret = Returned(<<>>)

(***************************************************************************)
(* The retrieval of an object's body: the streaming path of                *)
(* readAndParseFromS3 (part_005:380-401) and the path of                   *)
(* WAFProcessor.Process through a temporary file (build.sh:74-100).  The   *)
(* tokens of a key or file name are its extensions and other text.         *)
(***************************************************************************)
\* the reader a body or file is read through, chosen by the name's suffix
\* (part_005:391-401; cloudfront_parser.go:109-119 for a file): whether it
\* decompresses, and the error of gzip.NewReader on content that is not gzip
OpenReader(name, contentGz) ==
    IF HasSuffix(name, <<".gz">>)
    THEN [gunzip |-> TRUE,
          err |-> IF contentGz THEN <<>>
                  ELSE <<Error("failed to create gzip reader", 0, 0, NoCause)>>]
    ELSE [gunzip |-> FALSE, err |-> <<>>]

\* the name os.CreateTemp("", "waf-log-*.json.gz") gives the file (build.sh:84):
\* the star is replaced by a random string
TempName(random) == <<"waf-log-", random, ".json", ".gz">>

\* parser.ParseWAFLogFile opens the file the way its sibling ParseCloudFrontLogFile does
ParseWAFLogFileReader(fileName, contentGz) == OpenReader(fileName, contentGz)

\* readAndParseFromS3: GetObject and the choice of the reader (382-401)
FetchStream ==
    /\ fetch.pc = "get"
    /\ fetch.path = "stream"
    /\ LET r == OpenReader(fetch.key, fetch.bodyGz)
       IN fetch' = [fetch EXCEPT !.pc = "done", !.gunzip = r.gunzip, !.err = r.err]
    /\ UNCHANGED <<cfgVars, callVars, ingestVars, sendVars, hpc, hret, attrCall, keyCall, dispatch, inv,
                   cfCall>>

\* WAFProcessor.Process: GetObject and os.CreateTemp (74-89)
FetchCreateTemp ==
    /\ fetch.pc = "get"
    /\ fetch.path = "tempfile"
    /\ \E random \in {"1", "2"} :
          fetch' = [fetch EXCEPT !.pc = "copy", !.file = TempName(random)]
    /\ UNCHANGED <<cfgVars, callVars, ingestVars, sendVars, hpc, hret, attrCall, keyCall, dispatch, inv,
                   cfCall>>

\* io.Copy(tmpFile, result.Body) and tmpFile.Close() (91-95): the file holds the
\* bytes of the body
FetchCopy ==
    /\ fetch.pc = "copy"
    /\ fetch' = [fetch EXCEPT !.pc = "parse", !.fileGz = fetch.bodyGz]
    /\ UNCHANGED <<cfgVars, callVars, ingestVars, sendVars, hpc, hret, attrCall, keyCall, dispatch, inv,
                   cfCall>>

\* parser.ParseWAFLogFile(tmpFile.Name()) (97-100)
FetchParseFile ==
    /\ fetch.pc = "parse"
    /\ LET r == ParseWAFLogFileReader(fetch.file, fetch.fileGz)
       IN fetch' = [fetch EXCEPT !.pc = "done", !.gunzip = r.gunzip, !.err = r.err]
    /\ UNCHANGED <<cfgVars, callVars, ingestVars, sendVars, hpc, hret, attrCall, keyCall, dispatch, inv,
                   cfCall>>

\* longest object key drawn for the retrieval, in tokens
MaxFetchKeyLen == 3

FetchInit ==
    /\ PipelineIdle
    /\ CallIdle
    /\ fetch \in [pc : {"get"}, path : {"stream", "tempfile"},
                  key : SeqsUpTo({"x", ".log", ".gz"}, MaxFetchKeyLen),
                  bodyGz : BOOLEAN, file : {<<>>}, fileGz : {FALSE},
                  gunzip : {FALSE}, err : {<<>>}]
    /\ attrCall = [pc |-> "idle"]
    /\ keyCall = [pc |-> "idle"]
    /\ dispatch = [pc |-> "idle"]
    /\ inv = [pc |-> "idle"]
    /\ cfCall = [pc |-> "idle"]
    /\ nlbCall = [pc |-> "idle"]

FetchNext == FetchStream \/ FetchCreateTemp \/ FetchCopy \/ FetchParseFile

SpecFetch == FetchInit /\ [][FetchNext]_vars

(***************************************************************************)
(* Properties of the retrieval (SpecFetch).                                *)
(***************************************************************************)
\* C19: on both retrieval paths the body is decompressed if and only if the
\* object's key ends in ".gz"
C19_GzipIffKeySuffix ==
    fetch.pc = "done" =>
        (fetch.gunzip <=> (fetch.key # <<>> /\ fetch.key[Len(fetch.key)] = ".gz"))

(***************************************************************************)
(* ParseCloudFrontLogLine (cloudfront_parser.go:51-99).  The tokens of a   *)
(* line are its characters.                                                *)
(***************************************************************************)
\* the columns a record needs (cloudfront_parser.go:58)
CloudFrontColumns == 33

WhiteSpace == {" ", "\t", "\r", "\n"}

\* strings.TrimSpace
TrimSpace(str) ==
    LET inked == {i \in DOMAIN str : str[i] \notin WhiteSpace}
    IN IF inked = {} THEN <<>>
       ELSE SubSeq(str, CHOOSE i \in inked : \A j \in inked : i <= j,
                        CHOOSE i \in inked : \A j \in inked : j <= i)

DigitChars == {"0", "1", "2", "3", "4", "5", "6", "7", "8", "9"}

DigitValue(c) ==
    CASE c = "0" -> 0 [] c = "1" -> 1 [] c = "2" -> 2 [] c = "3" -> 3 [] c = "4" -> 4
      [] c = "5" -> 5 [] c = "6" -> 6 [] c = "7" -> 7 [] c = "8" -> 8 [] c = "9" -> 9

IsDigits(str) == str # <<>> /\ \A i \in DOMAIN str : str[i] \in DigitChars

\* the value of a run of decimal digits
RECURSIVE DecimalValue(_)
DecimalValue(str) ==
    IF str = <<>> THEN 0
    ELSE 10 * DecimalValue(SubSeq(str, 1, Len(str) - 1)) + DigitValue(str[Len(str)])

\* strconv.Atoi / strconv.ParseInt with the error dropped: an optional sign and
\* decimal digits, 0 for anything else
Atoi(str) ==
    IF IsDigits(str) THEN DecimalValue(str)
    ELSE IF str # <<>> /\ str[1] = "-" /\ IsDigits(Tail(str)) THEN 0 - DecimalValue(Tail(str))
    ELSE IF str # <<>> /\ str[1] = "+" /\ IsDigits(Tail(str)) THEN DecimalValue(Tail(str))
    ELSE 0

\* a decimal fraction: mant * 10^exp, without trailing zeros in mant
RECURSIVE Normal(_, _)
Normal(mant, exp) ==
    IF mant = 0 THEN [mant |-> 0, exp |-> 0]
    ELSE IF exp < 0 /\ mant % 10 = 0 THEN Normal(mant \div 10, exp + 1)
    ELSE [mant |-> mant, exp |-> exp]

\* strconv.ParseFloat with the error dropped, for plain decimal numbers: an
\* optional minus sign and digits with at most one point among them, 0 for
\* anything else
ParseFloat(str) ==
    LET neg == str # <<>> /\ str[1] = "-"
        unsigned == IF neg THEN Tail(str) ELSE str
        points == {i \in DOMAIN unsigned : unsigned[i] = "."}
        digits == SelectSeq(unsigned, LAMBDA c : c # ".")
        mant == IF neg THEN 0 - DecimalValue(digits) ELSE DecimalValue(digits)
    IN IF Cardinality(points) <= 1 /\ IsDigits(digits)
       THEN IF points = {} THEN Normal(mant, 0)
            ELSE Normal(mant, 0 - (Len(unsigned) - (CHOOSE i \in points : TRUE)))
       ELSE Normal(0, 0)

\* parseCFInt, parseCFInt64 (148-162): "-" and "" are 0
parseCFInt(str) == IF str = <<"-">> \/ str = <<>> THEN 0 ELSE Atoi(str)

\* parseCFFloat (164-170)
parseCFFloat(str) == IF str = <<"-">> \/ str = <<>> THEN Normal(0, 0) ELSE ParseFloat(str)

\* the fields of CloudFrontLogEntry in the order of their columns (14-48)
CloudFrontFields ==
    <<"Date", "Time", "XEdgeLocation", "SCBytes", "CIP", "CSMethod", "CSHost", "CSURIStem",
      "SCStatus", "CSReferer", "CSUserAgent", "CSURIQuery", "CSCookie", "XEdgeResultType",
      "XEdgeRequestID", "XHostHeader", "CSProtocol", "CSBytes", "TimeTaken", "XForwardedFor",
      "SSLProtocol", "SSLCipher", "XEdgeResponseResultType", "CSProtocolVersion", "FLEStatus",
      "FLEEncryptedFields", "CPort", "TimeToFirstByte", "XEdgeDetailedResultType",
      "SCContentType", "SCContentLen", "SCRangeStart", "SCRangeEnd">>

\* the columns of the integer fields and of the floating-point fields (14-48)
IntColumns == {4, 9, 18, 26, 27, 31}
FloatColumns == {19, 28}

\* the entry built from the columns (62-96)
CloudFrontLogEntry(fields) ==
    [Date |-> fields[1],
     Time |-> fields[2],
     XEdgeLocation |-> fields[3],
     SCBytes |-> parseCFInt(fields[4]),
     CIP |-> fields[5],
     CSMethod |-> fields[6],
     CSHost |-> fields[7],
     CSURIStem |-> fields[8],
     SCStatus |-> parseCFInt(fields[9]),
     CSReferer |-> fields[10],
     CSUserAgent |-> fields[11],
     CSURIQuery |-> fields[12],
     CSCookie |-> fields[13],
     XEdgeResultType |-> fields[14],
     XEdgeRequestID |-> fields[15],
     XHostHeader |-> fields[16],
     CSProtocol |-> fields[17],
     CSBytes |-> parseCFInt(fields[18]),
     TimeTaken |-> parseCFFloat(fields[19]),
     XForwardedFor |-> fields[20],
     SSLProtocol |-> fields[21],
     SSLCipher |-> fields[22],
     XEdgeResponseResultType |-> fields[23],
     CSProtocolVersion |-> fields[24],
     FLEStatus |-> fields[25],
     FLEEncryptedFields |-> parseCFInt(fields[26]),
     CPort |-> parseCFInt(fields[27]),
     TimeToFirstByte |-> parseCFFloat(fields[28]),
     XEdgeDetailedResultType |-> fields[29],
     SCContentType |-> fields[30],
     SCContentLen |-> parseCFInt(fields[31]),
     SCRangeStart |-> fields[32],
     SCRangeEnd |-> fields[33]]

\* a parser that skips a short record instead of reporting it
ParseCloudFrontLogLineSkipsShort(line) ==
    LET trimmed == TrimSpace(line)
        fields == Split(trimmed, "\t")
    IN IF trimmed = <<>> \/ HasPrefix(trimmed, <<"#">>) \/ Len(fields) < CloudFrontColumns
       THEN [entry |-> <<>>, err |-> <<>>]
       ELSE [entry |-> <<CloudFrontLogEntry(fields)>>, err |-> <<>>]

\* ParseCloudFrontLogLine (51-99)
ParseCloudFrontLogLine(line) ==
    LET trimmed == TrimSpace(line)
        fields == Split(trimmed, "\t")
    IN IF trimmed = <<>> \/ HasPrefix(trimmed, <<"#">>)
       THEN [entry |-> <<>>, err |-> <<>>]
       ELSE IF Len(fields) < CloudFrontColumns
       THEN [entry |-> <<>>,
             err |-> <<Error("invalid number of fields", 0, Len(fields), NoCause)>>]
       ELSE [entry |-> <<CloudFrontLogEntry(fields)>>, err |-> <<>>]

CloudFrontCall ==
    /\ cfCall.pc = "call"
    /\ LET r == ParseCloudFrontLogLine(cfCall.line)
       IN cfCall' = [cfCall EXCEPT !.pc = "done", !.entry = r.entry, !.err = r.err]
    /\ UNCHANGED <<cfgVars, callVars, ingestVars, sendVars, hpc, hret, attrCall, keyCall, dispatch, inv,
                   fetch>>

\* most columns of a drawn record
MaxColumns == 34

\* a record of n columns: its first column is text, a number, empty or starts a
\* comment, its last column is text or empty, the others are text
Columns(n, first, last) ==
    [i \in 1..n |-> IF i = 1 THEN first ELSE IF i = n THEN last ELSE <<"f">>]

CloudFrontLines ==
    {lead \o Join(Columns(n, first, last), "\t") \o trail :
        lead \in {<<>>, <<" ">>, <<"\t">>}, trail \in {<<>>, <<" ">>, <<"\t">>},
        n \in 0..MaxColumns, first \in {<<"f">>, <<>>, <<"#">>, <<"#", "f">>},
        last \in {<<"7">>, <<>>}}

\* a full record: every column holds a value of its field's kind, but for the
\* first column, the last column and one numeric column p, which hold a drawn
\* value
FullRecord(n, first, last, p, v) ==
    [i \in 1..n |->
        IF i = p THEN v
        ELSE IF i = 1 THEN first
        ELSE IF i = n THEN last
        ELSE IF i \in IntColumns THEN <<"7">>
        ELSE IF i \in FloatColumns THEN <<"1", ".", "5">>
        ELSE <<"f">>]

CloudFrontRecords ==
    {Join(FullRecord(n, first, last, p, v), "\t") :
        n \in CloudFrontColumns..MaxColumns,
        first \in {<<"f">>, <<>>, <<" ">>},
        last \in {<<"f">>, <<"-">>, <<>>, <<" ">>},
        p \in IntColumns \cup FloatColumns,
        v \in {<<"-">>, <<>>, <<"1", "2">>, <<"0", ".", "2", "5", "0">>, <<"x">>}}

CloudFrontInit ==
    /\ PipelineIdle
    /\ CallIdle
    /\ nlbCall = [pc |-> "idle"]
    /\ cfCall \in [pc : {"call"}, line : CloudFrontLines \cup CloudFrontRecords,
                    entry : {<<>>}, err : {<<>>}]
    /\ attrCall = [pc |-> "idle"]
    /\ keyCall = [pc |-> "idle"]
    /\ dispatch = [pc |-> "idle"]
    /\ inv = [pc |-> "idle"]
    /\ fetch = [pc |-> "idle"]

CloudFrontNext == CloudFrontCall

SpecCloudFront == CloudFrontInit /\ [][CloudFrontNext]_vars

(***************************************************************************)
(* Properties of ParseCloudFrontLogLine (SpecCloudFront).                  *)
(***************************************************************************)
\* a record of white space only
BlankRecord(line) == \A i \in DOMAIN line : line[i] \in WhiteSpace

\* a record whose first token after the leading white space is "#"
CommentRecord(line) ==
    \E i \in DOMAIN line :
        line[i] = "#" /\ \A j \in 1..(i - 1) : line[j] \in WhiteSpace

\* the tab-separated columns of a record: one more than its tabs
ColumnCount(line) == Cardinality({i \in DOMAIN line : line[i] = "\t"}) + 1

\* C20: every record that is neither blank nor a comment and has fewer than 33
\* tab-separated columns gives no entry and an error, and no record gives an
\* entry together with an error
C20_ShortRecordIsError ==
    cfCall.pc = "done" =>
        /\ (/\ ~BlankRecord(cfCall.line) /\ ~CommentRecord(cfCall.line)
            /\ ColumnCount(cfCall.line) < CloudFrontColumns)
              => cfCall.entry = <<>> /\ cfCall.err # <<>>
        /\ ~(cfCall.entry # <<>> /\ cfCall.err # <<>>)

\* a record of 32 columns, refused
C20_Witness ==
    /\ cfCall.pc = "done"
    /\ cfCall.line = Join([i \in 1..32 |-> IF i = 32 THEN <<"7">> ELSE <<"f">>], "\t")
    /\ cfCall.entry = <<>>
    /\ cfCall.err # <<>>

\* the position of the k-th tab of a record; 0 before the first, one past the
\* end after the last
TabAt(line, k) ==
    LET tabs == {i \in DOMAIN line : line[i] = "\t"}
    IN IF k = 0 THEN 0
       ELSE IF k > Cardinality(tabs) THEN Len(line) + 1
       ELSE CHOOSE i \in tabs : Cardinality({j \in tabs : j <= i}) = k

\* the i-th of the columns the record was joined from
Column(line, i) == SubSeq(line, TabAt(line, i - 1) + 1, TabAt(line, i) - 1)

\* the absent sentinel of a numeric column
Absent(col) == col = <<"-">> \/ col = <<>>

\* the value a column stands for in the i-th field
FieldValue(i, col) ==
    IF i \in IntColumns THEN (IF Absent(col) THEN 0 ELSE Atoi(col))
    ELSE IF i \in FloatColumns THEN (IF Absent(col) THEN Normal(0, 0) ELSE ParseFloat(col))
    ELSE col

\* a record joined from 33 or more columns that is neither blank nor a comment
ColumnsRecord(line) ==
    /\ ColumnCount(line) >= CloudFrontColumns
    /\ ~BlankRecord(line)
    /\ ~CommentRecord(line)

\* C21: every record joined from 33 or more columns gives an entry whose i-th
\* field is the i-th column, for each of the 33 fields: a text column as it is,
\* a numeric column as its value; also when the first or the last column is
\* empty or white space
C21_ColumnsRoundTrip ==
    (cfCall.pc = "done" /\ ColumnsRecord(cfCall.line)) =>
        /\ cfCall.err = <<>>
        /\ cfCall.entry # <<>>
        /\ \A i \in 1..CloudFrontColumns :
              cfCall.entry[1][CloudFrontFields[i]] = FieldValue(i, Column(cfCall.line, i))

\* C22: a numeric column holding "-" or nothing gives zero in its field and no
\* error, in whichever numeric column it stands and whatever the other columns
\* hold
C22_AbsentIsZero ==
    (cfCall.pc = "done" /\ ColumnsRecord(cfCall.line)) =>
        \A p \in IntColumns \cup FloatColumns :
            Absent(Column(cfCall.line, p)) =>
                /\ cfCall.err = <<>>
                /\ cfCall.entry # <<>>
                /\ cfCall.entry[1][CloudFrontFields[p]] = FieldValue(p, <<>>)

(***************************************************************************)
(* ParseNLBLogLine (part_002).  A line is a sequence of characters.        *)
(***************************************************************************)
\* the space-separated tokens of nlbLogPattern (38-40): 23 groups, the client
\* and the target each one token of two groups
NLBTokens == 21

NumberChars == DigitChars \cup {"-", "."}
IntegerChars == DigitChars \cup {"-"}

\* the longest prefix of str made of characters of cls: a trailing group cls*
ClassPrefix(str, cls) ==
    LET cut == {i \in DOMAIN str : str[i] \notin cls}
    IN IF cut = {} THEN str ELSE SubSeq(str, 1, SetMin(cut) - 1)

\* the token cut at its first colon, the port being the digits that follow
AddressPortFirstColon(tok) ==
    LET colons == {i \in DOMAIN tok : tok[i] = ":"}
    IN IF colons = {} THEN <<>>
       ELSE <<SubSeq(tok, 1, SetMin(colons) - 1),
              ClassPrefix(SubSeq(tok, SetMin(colons) + 1, Len(tok)), DigitChars)>>

\* ([^ ]*):([0-9]*) on a whole token: the first group is greedy, so the colon is
\* the last one after which only digits follow
AddressPort(tok) ==
    LET colons == {i \in DOMAIN tok :
                      tok[i] = ":" /\ \A j \in (i + 1)..Len(tok) : tok[j] \in DigitChars}
    IN IF colons = {} THEN <<>>
       ELSE <<SubSeq(tok, 1, SetMax(colons) - 1), SubSeq(tok, SetMax(colons) + 1, Len(tok))>>

\* nlbLogPattern.FindStringSubmatch (38-40, 49): the matched text followed by
\* the 23 groups, or nothing.  No group can hold a space, so the groups are
\* cut at the first 20 spaces; the pattern is anchored at the start of the
\* line only, so the last group takes what it can of the rest.
nlbLogPattern(line) ==
    LET toks == Split(line, " ")
    IN IF Len(toks) < NLBTokens THEN <<>>
       ELSE LET client == AddressPort(toks[6])
                target == AddressPort(toks[7])
                last == ClassPrefix(toks[NLBTokens], NumberChars)
            IN IF \/ client = <<>> \/ target = <<>>
                  \/ ~AllIn(toks[8], NumberChars) \/ ~AllIn(toks[9], NumberChars)
                  \/ ~AllIn(toks[10], IntegerChars) \/ ~AllIn(toks[11], IntegerChars)
               THEN <<>>
               ELSE <<Join(SubSeq(toks, 1, NLBTokens - 1) \o <<last>>, " ")>>
                    \o SubSeq(toks, 1, 5) \o client \o target
                    \o SubSeq(toks, 8, NLBTokens - 1) \o <<last>>

\* the helpers of the parser package: group i of a match, as text, as an
\* integer and as a floating-point number, zero when it is no number
getString(matches, i) == IF i + 1 <= Len(matches) THEN matches[i + 1] ELSE <<>>
getInt(matches, i) == Atoi(getString(matches, i))
getFloat(matches, i) == ParseFloat(getString(matches, i))

\* the entry built from the groups (55-79)
NLBLogEntry(matches) ==
    [Type |-> getString(matches, 1),
     Version |-> getString(matches, 2),
     Time |-> getString(matches, 3),
     ELB |-> getString(matches, 4),
     ListenerID |-> getString(matches, 5),
     ClientIP |-> getString(matches, 6),
     ClientPort |-> getInt(matches, 7),
     TargetIP |-> getString(matches, 8),
     TargetPort |-> getInt(matches, 9),
     ConnectionTime |-> getFloat(matches, 10),
     TLSHandshakeTime |-> getFloat(matches, 11),
     ReceivedBytes |-> getInt(matches, 12),
     SentBytes |-> getInt(matches, 13),
     IncomingTLSAlert |-> getString(matches, 14),
     ChosenCertARN |-> getString(matches, 15),
     ChosenCertSerial |-> getString(matches, 16),
     TLSCipher |-> getString(matches, 17),
     TLSProtocolVersion |-> getString(matches, 18),
     TLSNamedGroup |-> getString(matches, 19),
     DomainName |-> getString(matches, 20),
     ALPNProtocol |-> getString(matches, 21),
     ALPNClientPreferenceList |-> getString(matches, 22),
     TLSHandshakeTimeMS |-> getFloat(matches, 23)]

\* a parser that takes a comment for a record
ParseNLBLogLineNoComment(line) ==
    LET trimmed == TrimSpace(line)
        matches == nlbLogPattern(trimmed)
    IN IF trimmed = <<>>
       THEN [entry |-> <<>>, err |-> <<>>]
       ELSE IF matches = <<>>
       THEN [entry |-> <<>>, err |-> <<Error("failed to parse NLB log line", 0, 0, NoCause)>>]
       ELSE [entry |-> <<NLBLogEntry(matches)>>, err |-> <<>>]

\* ParseNLBLogLine (43-82)
ParseNLBLogLine(line) ==
    LET trimmed == TrimSpace(line)
        matches == nlbLogPattern(trimmed)
    IN IF trimmed = <<>> \/ HasPrefix(trimmed, <<"#">>)
       THEN [entry |-> <<>>, err |-> <<>>]
       ELSE IF matches = <<>>
       THEN [entry |-> <<>>, err |-> <<Error("failed to parse NLB log line", 0, 0, NoCause)>>]
       ELSE [entry |-> <<NLBLogEntry(matches)>>, err |-> <<>>]

NLBCall ==
    /\ nlbCall.pc = "call"
    /\ LET r == ParseNLBLogLine(nlbCall.line)
       IN nlbCall' = [nlbCall EXCEPT !.pc = "done", !.entry = r.entry, !.err = r.err]
    /\ UNCHANGED <<cfgVars, ingestVars, sendVars, hpc, hret, attrCall, keyCall, dispatch, inv,
                   fetch, cfCall, fileCall, extractCall>>

\* the tokens of the line of TestParseNLBLogLine (part_001:194)
ExampleTokens ==
    <<
       <<"t", "l", "s">>,
       <<"2", ".", "0">>,
       <<"2", "0", "2", "3", "-", "1", "0", "-", "0", "1", "T", "0", "0", ":", "0",
         "0", ":", "0", "0", ".", "0", "0", "0", "0", "0", "0", "Z">>,
       <<"a", "p", "p", "/", "n", "e", "t", "-", "l", "b", "/", "1", "2", "3", "4",
         "5", "6", "7", "8", "9", "0", "a", "b", "c", "d", "e", "f">>,
       <<"l", "i", "s", "t", "e", "n", "e", "r", "/", "n", "e", "t", "-", "l", "b",
         "/", "1", "2", "3", "4", "5", "6", "7", "8", "9", "0", "a", "b", "c", "d",
         "e", "f", "/", "1", "2", "3", "4", "5", "6", "7", "8", "9", "0", "a", "b",
         "c", "d", "e", "f">>,
       <<"1", ".", "2", ".", "3", ".", "4", ":", "1", "2", "3", "4", "5">>,
       <<"5", ".", "6", ".", "7", ".", "8", ":", "8", "0">>,
       <<"0", ".", "0", "0", "1">>,
       <<"0", ".", "0", "0", "2">>,
       <<"1", "0", "0">>,
       <<"2", "0", "0">>,
       <<"-">>,
       <<"a", "r", "n", ":", "a", "w", "s", ":", "a", "c", "m", ":", "u", "s", "-",
         "e", "a", "s", "t", "-", "1", ":", "1", "2", "3", "4", "5", "6", "7", "8",
         "9", "0", "1", "2", ":", "c", "e", "r", "t", "i", "f", "i", "c", "a", "t",
         "e", "/", "1", "2", "3", "4", "5", "6", "7", "8", "-", "1", "2", "3", "4",
         "-", "1", "2", "3", "4", "-", "1", "2", "3", "4", "-", "1", "2", "3", "4",
         "5", "6", "7", "8", "9", "0", "1", "2">>,
       <<"-">>,
       <<"E", "C", "D", "H", "E", "-", "R", "S", "A", "-", "A", "E", "S", "1", "2",
         "8", "-", "G", "C", "M", "-", "S", "H", "A", "2", "5", "6">>,
       <<"T", "L", "S", "v", "1", ".", "2">>,
       <<"-">>,
       <<"e", "x", "a", "m", "p", "l", "e", ".", "c", "o", "m">>,
       <<"h", "2">>,
       <<"-">>,
       <<"2", ".", "0", "0", "0">>
    >>

\* the line of the second case of TestParseNLBLogLine (part_001:219-224)
InvalidLogLine ==
    <<"i", "n", "v", "a", "l", "i", "d", " ", "l", "o", "g", " ", "l", "i", "n", "e">>

\* most tokens of a drawn line
MaxTokens == 22

\* a letter for each token, to tell the tokens apart
TokenLetters ==
    <<"a", "b", "c", "d", "e", "f", "g", "h", "i", "j", "k", "l", "m", "n", "o", "p", "q",
      "r", "s", "t", "u", "v", "w">>

\* a line of n tokens: the client token, one numeric token and the 21st token
\* are drawn, the target is an address and a port, the other numeric tokens
\* are numbers, the others are a letter each
NLBTokensOf(n, client, number, last) ==
    [i \in 1..n |->
        IF i = 6 THEN client
        ELSE IF i = 7 THEN <<"t", ":", "8", "0">>
        ELSE IF i = 8 THEN number
        ELSE IF i \in 9..11 THEN <<"7">>
        ELSE IF i = NLBTokens THEN last
        ELSE <<TokenLetters[i]>>]

NLBLines ==
    {lead \o Join(NLBTokensOf(n, client, number, last), " ") \o trail :
        lead \in {<<>>, <<" ">>, <<"#">>, <<"\t", "#">>}, trail \in {<<>>, <<" ">>},
        n \in 0..MaxTokens,
        client \in {<<"c", ":", "4", "4", "3">>, <<"c", ":", ":", "1", ":", "5">>, <<"c">>,
                    <<"c", ":">>, <<"c", ":", "x">>, <<":", "9">>},
        number \in {<<"0", ".", "5">>, <<"-">>, <<>>, <<"x">>},
        last \in {<<"2", ".", "0", "0", "0">>, <<"2", "x">>, <<"x">>, <<"-">>}}
    \cup {Join(ExampleTokens, " "), InvalidLogLine}

NLBInit ==
    /\ PipelineIdle
    /\ CallIdle
    /\ nlbCall \in [pc : {"call"}, line : NLBLines, entry : {<<>>}, err : {<<>>}]
    /\ attrCall = [pc |-> "idle"]
    /\ keyCall = [pc |-> "idle"]
    /\ dispatch = [pc |-> "idle"]
    /\ inv = [pc |-> "idle"]
    /\ fetch = [pc |-> "idle"]
    /\ cfCall = [pc |-> "idle"]

NLBNext == NLBCall

SpecNLB == NLBInit /\ [][NLBNext]_vars

(***************************************************************************)
(* Both line parsers on the same line.                                     *)
(***************************************************************************)
\* most white space before a drawn line
MaxLead == 2

\* a record of the 33 columns of the edge format
CloudFrontRecord == Join(FullRecord(CloudFrontColumns, <<"f">>, <<"f">>, 4, <<"7">>), "\t")

ParserLines ==
    {lead \o text \o trail :
        lead \in SeqsUpTo(WhiteSpace, MaxLead),
        text \in {<<>>, <<"#">>, <<"#", "#">>, <<"#", "f">>, <<"#", " ", "f">>, <<"f">>,
                  <<"f", "#">>, <<"f", " ", "#">>,
                  CloudFrontRecord, <<"#">> \o CloudFrontRecord,
                  Join(ExampleTokens, " "), <<"#">> \o Join(ExampleTokens, " ")},
        trail \in {<<>>, <<" ">>, <<"\t">>, <<"\r">>}}

ParsersInit ==
    /\ PipelineIdle
    /\ CallIdle
    /\ \E line \in ParserLines :
          /\ cfCall = [pc |-> "call", line |-> line, entry |-> <<>>, err |-> <<>>]
          /\ nlbCall = [pc |-> "call", line |-> line, entry |-> <<>>, err |-> <<>>]
    /\ attrCall = [pc |-> "idle"]
    /\ keyCall = [pc |-> "idle"]
    /\ dispatch = [pc |-> "idle"]
    /\ inv = [pc |-> "idle"]
    /\ fetch = [pc |-> "idle"]

ParsersNext == CloudFrontCall \/ NLBCall

SpecParsers == ParsersInit /\ [][ParsersNext]_vars

(***************************************************************************)
(* Properties of the line parsers.                                         *)
(***************************************************************************)
\* nothing came back from a call: neither an entry nor an error
NilNil(call) == call.entry = <<>> /\ call.err = <<>>

\* C23: for every record that is empty, is white space only or whose first
\* character after the white space is "#", ParseCloudFrontLogLine and
\* ParseNLBLogLine return neither an entry nor an error
C23_BlankAndCommentGiveNothing ==
    /\ (cfCall.pc = "done" /\ (BlankRecord(cfCall.line) \/ CommentRecord(cfCall.line)))
          => NilNil(cfCall)
    /\ (nlbCall.pc = "done" /\ (BlankRecord(nlbCall.line) \/ CommentRecord(nlbCall.line)))
          => NilNil(nlbCall)

\* both parsers were given a commented record after white space, and a record
\* without the "#" is not dropped
C23_Witness ==
    /\ cfCall.pc = "done" /\ nlbCall.pc = "done"
    /\ cfCall.line = <<" ", "\t", "#">> \o Join(ExampleTokens, " ")
    /\ nlbCall.line = cfCall.line
    /\ NilNil(cfCall) /\ NilNil(nlbCall)
    /\ ParseNLBLogLine(Join(ExampleTokens, " ")).entry # <<>>

(***************************************************************************)
(* ParseCloudFrontLogFile (cloudfront_parser.go:102-145).  A file has a    *)
(* name, ending in ".gz" or not, and data; gzip data is modelled as its    *)
(* text behind a header.                                                   *)
(***************************************************************************)
GzipHeader == "1f8b"

\* gzip.NewReader and the read through it: the text of gzip data, an error
\* for other data
IsGzip(data) == data # <<>> /\ data[1] = GzipHeader
Gunzip(data) == Tail(data)

\* os.Open, gzip.NewReader, io.ReadAll and strings.Split (103-126)
FileOpen ==
    /\ fileCall.pc = "open"
    /\ LET f == fileCall.file
       IN IF ~f.exists
          THEN fileCall' = [fileCall EXCEPT !.pc = "done",
                               !.err = <<Error("failed to open file", 0, 0, NoCause)>>]
          ELSE IF f.gzName /\ ~IsGzip(f.data)
          THEN fileCall' = [fileCall EXCEPT !.pc = "done",
                               !.err = <<Error("failed to create gzip reader", 0, 0, NoCause)>>]
          ELSE IF ~f.readable
          THEN fileCall' = [fileCall EXCEPT !.pc = "done",
                               !.err = <<Error("failed to read file", 0, 0, NoCause)>>]
          ELSE fileCall' = [fileCall EXCEPT !.pc = "lines",
                               !.lines = Split(IF f.gzName THEN Gunzip(f.data) ELSE f.data, "\n")]
    /\ UNCHANGED <<cfgVars, ingestVars, sendVars, procVars, hpc, hret, nlbCall, extractCall>>

\* a loop that ends at the first malformed line
FileLineStopsOnError ==
    /\ fileCall.pc = "lines"
    /\ fileCall.lines # <<>>
    /\ LET r == ParseCloudFrontLogLine(Head(fileCall.lines))
       IN fileCall' = [fileCall EXCEPT
                          !.lines = IF r.err # <<>> THEN <<>> ELSE Tail(@),
                          !.entries = IF r.err = <<>> THEN @ \o r.entry ELSE @]
    /\ UNCHANGED <<cfgVars, ingestVars, sendVars, procVars, hpc, hret, nlbCall, extractCall>>

\* one turn of the loop over the lines (129-142)
FileLine ==
    /\ fileCall.pc = "lines"
    /\ fileCall.lines # <<>>
    /\ LET r == ParseCloudFrontLogLine(Head(fileCall.lines))
       IN fileCall' = [fileCall EXCEPT
                          !.lines = Tail(@),
                          !.entries = IF r.err = <<>> THEN @ \o r.entry ELSE @]
    /\ UNCHANGED <<cfgVars, ingestVars, sendVars, procVars, hpc, hret, nlbCall, extractCall>>

\* the return after the last line (144)
FileReturn ==
    /\ fileCall.pc = "lines"
    /\ fileCall.lines = <<>>
    /\ fileCall' = [fileCall EXCEPT !.pc = "done"]
    /\ UNCHANGED <<cfgVars, ingestVars, sendVars, procVars, hpc, hret, nlbCall, extractCall>>

\* most lines of a drawn file
MaxFileLines == 3

\* a record of 33 columns with the given date
DatedRecord(date) == Join(FullRecord(CloudFrontColumns, date, <<"f">>, 4, <<"7">>), "\t")

\* the lines of a file: two records, a record ending in a carriage return, an
\* empty line, a blank line, a comment and a record of two columns
FileLineKinds ==
    {DatedRecord(<<"a">>), DatedRecord(<<"b">>) \o <<"\r">>, <<>>, <<" ">>, <<"#", "c">>,
     <<"f", "\t", "f">>}

FileTexts ==
    {Join(ls, "\n") \o end : ls \in SeqsUpTo(FileLineKinds, MaxFileLines), end \in {<<>>, <<"\n">>}}

Files ==
    {[exists |-> e, gzName |-> n, readable |-> r, data |-> IF z THEN <<GzipHeader>> \o t ELSE t] :
        e \in BOOLEAN, n \in BOOLEAN, r \in BOOLEAN, z \in BOOLEAN, t \in FileTexts}

FileInit ==
    /\ PipelineIdle
    /\ fileCall \in [pc : {"open"}, file : Files, lines : {<<>>}, entries : {<<>>}, err : {<<>>}]
    /\ extractCall = [pc |-> "idle"]
    /\ nlbCall = [pc |-> "idle"]
    /\ attrCall = [pc |-> "idle"]
    /\ keyCall = [pc |-> "idle"]
    /\ dispatch = [pc |-> "idle"]
    /\ inv = [pc |-> "idle"]
    /\ fetch = [pc |-> "idle"]
    /\ cfCall = [pc |-> "idle"]

FileNext == FileOpen \/ FileLine \/ FileReturn

SpecFile == FileInit /\ [][FileNext]_vars

(***************************************************************************)
(* Properties of ParseCloudFrontLogFile (SpecFile).                        *)
(***************************************************************************)
\* the file cannot be opened, decompressed or read
Unreadable(f) == ~f.exists \/ (f.gzName /\ ~IsGzip(f.data)) \/ ~f.readable

\* the lines of the text read from a file
TextLines(f) == Split(IF f.gzName THEN Gunzip(f.data) ELSE f.data, "\n")

\* the lines that parse to an entry, in their order
ValidLines(f) == SelectSeq(TextLines(f), LAMBDA l : ParseCloudFrontLogLine(l).entry # <<>>)

\* C24: ParseCloudFrontLogFile returns an error exactly when the file cannot be
\* opened, decompressed or read, and otherwise the entries of the lines that
\* parse to an entry, in file order: blank, comment and malformed lines are
\* passed over
C24_FileEntriesInOrder ==
    fileCall.pc = "done" =>
        /\ fileCall.err # <<>> <=> Unreadable(fileCall.file)
        /\ fileCall.err # <<>> => fileCall.entries = <<>>
        /\ fileCall.err = <<>> =>
              fileCall.entries =
                  [i \in 1..Len(ValidLines(fileCall.file)) |->
                      ParseCloudFrontLogLine(ValidLines(fileCall.file)[i]).entry[1]]

\* a malformed line and a comment between two records: both records come back
C24_Witness ==
    /\ fileCall.pc = "done"
    /\ fileCall.err = <<>>
    /\ fileCall.file.data = Join(<<DatedRecord(<<"b">>) \o <<"\r">>, <<"f", "\t", "f">>,
                                   DatedRecord(<<"a">>)>>, "\n")
    /\ Len(fileCall.entries) = 2
    /\ fileCall.entries[1].Date = <<"b">>
    /\ fileCall.entries[2].Date = <<"a">>

(***************************************************************************)
(* Properties of ParseNLBLogLine (SpecNLB).                                *)
(***************************************************************************)
\* the position of the k-th space of a line; 0 before the first, one past the
\* end after the last
SpaceAt(line, k) ==
    LET spaces == {i \in DOMAIN line : line[i] = " "}
    IN IF k = 0 THEN 0
       ELSE IF k > Cardinality(spaces) THEN Len(line) + 1
       ELSE CHOOSE i \in spaces : Cardinality({j \in spaces : j <= i}) = k

\* the i-th space-separated token of a line, and the number of its tokens
Token(line, i) == SubSeq(line, SpaceAt(line, i - 1) + 1, SpaceAt(line, i) - 1)
TokenCount(line) == Cardinality({i \in DOMAIN line : line[i] = " "}) + 1

\* a token "address:port": it has a colon, and digits only after its last one
HasPort(tok) ==
    \E i \in DOMAIN tok :
        /\ tok[i] = ":"
        /\ \A j \in (i + 1)..Len(tok) : tok[j] \in DigitChars

\* the text before and after the last colon of a token
BeforeLastColon(tok) == SubSeq(tok, 1, SetMax({i \in DOMAIN tok : tok[i] = ":"}) - 1)
AfterLastColon(tok) == SubSeq(tok, SetMax({i \in DOMAIN tok : tok[i] = ":"}) + 1, Len(tok))

\* the port of a token as a number: the digits after its last colon, 0 without
PortValue(tok) ==
    IF IsDigits(AfterLastColon(tok)) THEN DecimalValue(AfterLastColon(tok)) ELSE 0

\* the whole line is a record of the grammar: 21 tokens, the sixth and seventh
\* an address and a port, then two decimal numbers and two integers, and a
\* decimal number at the end
WholeGrammar(line) ==
    /\ TokenCount(line) = NLBTokens
    /\ HasPort(Token(line, 6)) /\ HasPort(Token(line, 7))
    /\ AllIn(Token(line, 8), NumberChars) /\ AllIn(Token(line, 9), NumberChars)
    /\ AllIn(Token(line, 10), IntegerChars) /\ AllIn(Token(line, 11), IntegerChars)
    /\ AllIn(Token(line, NLBTokens), NumberChars)

\* C25: for every line that is neither blank nor a comment, ParseNLBLogLine
\* returns an entry and no error when the whole line matches the grammar and an
\* error and no entry when it does not; it returns no entry taken from a part of
\* the line, and "invalid log line" gives the error
C25_WholeLineOrError ==
    (/\ nlbCall.pc = "done"
     /\ ~BlankRecord(nlbCall.line)
     /\ ~CommentRecord(nlbCall.line)) =>
        IF WholeGrammar(TrimSpace(nlbCall.line))
        THEN nlbCall.entry # <<>> /\ nlbCall.err = <<>>
        ELSE nlbCall.entry = <<>> /\ nlbCall.err # <<>>

\* the fields of the tokens after the target, in the order of the tokens
StringFields ==
    [i \in 12..20 |->
        <<"IncomingTLSAlert", "ChosenCertARN", "ChosenCertSerial", "TLSCipher",
          "TLSProtocolVersion", "TLSNamedGroup", "DomainName", "ALPNProtocol",
          "ALPNClientPreferenceList">>[i - 11]]

\* C26: for a line that matches the grammar, the sixth and the seventh token are
\* cut at their last colon into the address and the port as a number, and every
\* other token is the field at its place; the example line gives client
\* 1.2.3.4 port 12345, target 5.6.7.8 port 80 and the handshake time 2.000
C26_AddressPortAndOrder ==
    (nlbCall.pc = "done" /\ nlbCall.entry # <<>>) =>
        LET line == TrimSpace(nlbCall.line)
            e == nlbCall.entry[1]
        IN /\ e.Type = Token(line, 1)
           /\ e.Version = Token(line, 2)
           /\ e.Time = Token(line, 3)
           /\ e.ELB = Token(line, 4)
           /\ e.ListenerID = Token(line, 5)
           /\ e.ClientIP = BeforeLastColon(Token(line, 6))
           /\ e.ClientPort = PortValue(Token(line, 6))
           /\ e.TargetIP = BeforeLastColon(Token(line, 7))
           /\ e.TargetPort = PortValue(Token(line, 7))
           /\ e.ConnectionTime = ParseFloat(Token(line, 8))
           /\ e.TLSHandshakeTime = ParseFloat(Token(line, 9))
           /\ e.ReceivedBytes = Atoi(Token(line, 10))
           /\ e.SentBytes = Atoi(Token(line, 11))
           /\ \A i \in 12..20 : e[StringFields[i]] = Token(line, i)
           /\ WholeGrammar(line) => e.TLSHandshakeTimeMS = ParseFloat(Token(line, NLBTokens))
           /\ nlbCall.line = Join(ExampleTokens, " ") =>
                 /\ e.ClientIP = <<"1", ".", "2", ".", "3", ".", "4">>
                 /\ e.ClientPort = 12345
                 /\ e.TargetIP = <<"5", ".", "6", ".", "7", ".", "8">>
                 /\ e.TargetPort = 80
                 /\ e.TLSHandshakeTimeMS = [mant |-> 2, exp |-> 0]

\* the example line was parsed
C26_Witness ==
    /\ nlbCall.pc = "done"
    /\ nlbCall.line = Join(ExampleTokens, " ")
    /\ nlbCall.entry # <<>>
    /\ nlbCall.entry[1].ClientPort = 12345
    /\ nlbCall.entry[1].DomainName =
          <<"e", "x", "a", "m", "p", "l", "e", ".", "c", "o", "m">>

(***************************************************************************)
(* extractS3Records and parseBodyAsS3 (cmd/lambda), as their tests and     *)
(* the trigger collaborator of the specification describe them.  A         *)
(* document is the tree of its JSON text: a storage event with its         *)
(* records, an event-bus event with its detail, or something else; a       *)
(* storage record is a pair <<bucket, key>>.                               *)
(***************************************************************************)
NoDocument == [kind |-> "none", recs |-> <<>>]
S3EventDocument(recs) == [kind |-> "s3event", recs |-> recs]
EventBridgeDocument(recs) == [kind |-> "eventbridge", recs |-> recs]
UnknownDocument == [kind |-> "other", recs |-> <<>>]

\* the entries of "Records": a storage record, a queue message with a body, a
\* topic message with a message, or an entry with none of these
S3Item(rec) == [type |-> "s3", rec |-> rec, body |-> NoDocument]
SQSItem(doc) == [type |-> "sqs", rec |-> <<>>, body |-> doc]
SNSItem(doc) == [type |-> "sns", rec |-> <<>>, body |-> doc]

\* parseBodyAsS3 that knows the storage event only
parseBodyAsS3StandardOnly(doc) ==
    IF doc.kind = "s3event" /\ doc.recs # <<>>
    THEN [recs |-> doc.recs, err |-> <<>>]
    ELSE [recs |-> <<>>, err |-> <<Error("unknown body", 0, 0, NoCause)>>]

\* parseBodyAsS3: the records of a storage event, the one record of an
\* event-bus object-created event, an error for any other body
parseBodyAsS3(doc) ==
    IF doc.kind \in {"s3event", "eventbridge"} /\ doc.recs # <<>>
    THEN [recs |-> doc.recs, err |-> <<>>]
    ELSE [recs |-> <<>>, err |-> <<Error("unknown body", 0, 0, NoCause)>>]

\* extractS3Records, one entry of "Records": a storage record is taken as it
\* is, a queue body and a topic message are unwrapped, an entry that yields
\* nothing is passed over
ExtractItem ==
    /\ extractCall.pc = "items"
    /\ extractCall.items # <<>>
    /\ LET item == Head(extractCall.items)
           found == IF item.type = "s3" THEN <<item.rec>>
                    ELSE IF item.type \in {"sqs", "sns"} THEN parseBodyAsS3(item.body).recs
                    ELSE <<>>
       IN extractCall' = [extractCall EXCEPT !.items = Tail(@), !.recs = @ \o found]
    /\ UNCHANGED <<cfgVars, ingestVars, sendVars, procVars, hpc, hret, nlbCall, fileCall>>

\* extractS3Records, the end: the records found, or an error when there is none
ExtractReturn ==
    /\ extractCall.pc = "items"
    /\ extractCall.items = <<>>
    /\ extractCall' = [extractCall EXCEPT
                          !.pc = "done",
                          !.err = IF extractCall.recs = <<>>
                                  THEN <<Error("no valid S3 records found", 0, 0, NoCause)>>
                                  ELSE <<>>]
    /\ UNCHANGED <<cfgVars, ingestVars, sendVars, procVars, hpc, hret, nlbCall, fileCall>>

\* most entries of a drawn notification
MaxItems == 2

\* the entries of the tests (extract_test.go:22-92), a storage event of two
\* records in a queue message, and entries that carry nothing
Items ==
    {S3Item(<<"direct-bucket", "direct-key">>),
     SQSItem(S3EventDocument(<<<<"sqs-std-bucket", "sqs-std-key">>>>)),
     SQSItem(S3EventDocument(<<<<"b1", "k1">>, <<"b2", "k2">>>>)),
     SQSItem(EventBridgeDocument(<<<<"sqs-eb-bucket", "sqs-eb-key">>>>)),
     SNSItem(S3EventDocument(<<<<"sns-bucket", "sns-key">>>>)),
     SQSItem(UnknownDocument),
     SQSItem(S3EventDocument(<<>>)),
     SNSItem(UnknownDocument),
     [type |-> "none", rec |-> <<>>, body |-> NoDocument]}

\* a notification: its "Records"; unrelated JSON has none
ExtractInit ==
    /\ PipelineIdle
    /\ \E items \in SeqsUpTo(Items, MaxItems) :
          extractCall = [pc |-> "items", input |-> items, items |-> items, recs |-> <<>>,
                         err |-> <<>>]
    /\ fileCall = [pc |-> "idle"]
    /\ nlbCall = [pc |-> "idle"]
    /\ attrCall = [pc |-> "idle"]
    /\ keyCall = [pc |-> "idle"]
    /\ dispatch = [pc |-> "idle"]
    /\ inv = [pc |-> "idle"]
    /\ fetch = [pc |-> "idle"]
    /\ cfCall = [pc |-> "idle"]

ExtractNext == ExtractItem \/ ExtractReturn

SpecExtract == ExtractInit /\ [][ExtractNext]_vars

(***************************************************************************)
(* Properties of extractS3Records (SpecExtract).                           *)
(***************************************************************************)
\* the storage records an entry carries: its own, those of the storage event
\* in its body or message, or the one of the event-bus event in its body
Carried(item) ==
    IF item.type = "s3" THEN <<item.rec>>
    ELSE IF item.type = "sqs" /\ item.body.kind \in {"s3event", "eventbridge"} THEN item.body.recs
    ELSE IF item.type = "sns" /\ item.body.kind = "s3event" THEN item.body.recs
    ELSE <<>>

RECURSIVE AllCarried(_)
AllCarried(items) ==
    IF items = <<>> THEN <<>> ELSE Carried(Head(items)) \o AllCarried(Tail(items))

\* C27: extractS3Records returns the records the notification carries, in
\* whichever of the envelopes they come, and an error with no records when it
\* carries none
C27_EnvelopesUnwrapped ==
    extractCall.pc = "done" =>
        IF AllCarried(extractCall.input) = <<>>
        THEN extractCall.err # <<>> /\ extractCall.recs = <<>>
        ELSE extractCall.err = <<>> /\ extractCall.recs = AllCarried(extractCall.input)

\* a queue message with an event-bus event after one with an unknown body
C27_Witness ==
    /\ extractCall.pc = "done"
    /\ extractCall.input = <<SQSItem(UnknownDocument),
                             SQSItem(EventBridgeDocument(<<<<"sqs-eb-bucket", "sqs-eb-key">>>>))>>
    /\ extractCall.recs = <<<<"sqs-eb-bucket", "sqs-eb-key">>>>
    /\ extractCall.err = <<>>

(***************************************************************************)
(* The ingestion of one object under the Go scheduler: a goroutine that    *)
(* can take a step is not left waiting for ever.                           *)
(***************************************************************************)
\* the steps of the producer goroutine (431-448)
ProducerStep ==
    ProducerSend \/ (\E w \in 1..(MaxConcurrentCfg + 1) : ProducerHandoff(w)) \/ ProducerClose

\* the steps of worker w (417-428)
WorkerStep(w) == WorkerRecv(w) \/ WorkerSend(w) \/ WorkerExit(w)

\* the steps of the goroutine that called readAndParseFromS3 (380-463, 355)
CollectorStep == StartRead \/ Collect \/ CollectReturn \/ HandlerAfterRead

IngestFairness ==
    /\ WF_vars(ProducerStep)
    /\ \A w \in 1..(MaxConcurrentCfg + 1) : WF_vars(WorkerStep(w))
    /\ WF_vars(CloserClose)
    /\ WF_vars(CollectorStep)

\* whether the pipeline comes to rest depends on a line only through what a
\* worker does with it: pass it over, or publish its entry
IngestFairInit ==
    /\ IngestInit
    /\ \A i \in DOMAIN body.lines : body.lines[i] \in {BlankLine, MalformedLine, ValidLine(EntryA)}

SpecIngestFair == IngestFairInit /\ [][IngestNext]_vars /\ IngestFairness

(***************************************************************************)
(* Properties of the ingestion pipeline as a concurrent program            *)
(* (SpecIngest, SpecIngestFair).                                           *)
(***************************************************************************)
\* the pipeline has come to rest: every line was published, both queues are
\* closed and empty, and every goroutine is at its end
PipelineAtRest ==
    /\ prod = "done"
    /\ scanned = Len(body.lines)
    /\ linesClosed /\ linesChan = <<>>
    /\ \A w \in DOMAIN workers : workers[w].pc = "done"
    /\ Len(workers) = (IF maxConcurrent < 1 THEN 1 ELSE maxConcurrent)
    /\ closer = "done"
    /\ entriesClosed /\ entriesChan = <<>>
    /\ ~chanPanic

\* every line was taken once: as many entries were collected as there are
\* well-formed lines
EachLineOnce ==
    Len(collected) = Cardinality({i \in DOMAIN body.lines : body.lines[i].kind = "valid"})

\* C28: for every finite stream of lines, every maxConcurrent (one worker below
\* 1) and every queue capacity from 0, readAndParseFromS3 returns, and when it
\* returns after starting the pipeline every line was published and taken by
\* one worker, the line queue is closed, every worker has exited and the
\* result queue is closed; also when the scan ended on an error
C28_PipelineTerminates ==
    /\ <>ReadReturned
    /\ [](ReadReturned /\ body.fail # "open" => PipelineAtRest /\ EachLineOnce)

\* three lines went through two workers and queues without a buffer, the scan
\* ended on an error, and the call has returned
C28_Witness ==
    /\ ReadReturned
    /\ body.fail = "stream"
    /\ Len(body.lines) = MaxLines
    /\ maxBatchSize = 0
    /\ maxConcurrent = 2
    /\ PipelineAtRest
    /\ Len(collected) = MaxLines

\* C29: the result queue is closed once, by the closer, and only when the line
\* queue is closed and every worker has exited; no worker publishes onto the
\* closed queue; the collector returns only after the close, with the queue
\* empty, so the returned list holds an entry for every line a worker published
C29_ResultQueueClosedLast ==
    /\ entriesClosed <=> closer = "done"
    /\ entriesClosed =>
          /\ linesClosed
          /\ workers # <<>>
          /\ \A w \in DOMAIN workers : workers[w].pc = "done"
    /\ ~chanPanic
    /\ (ReadReturned /\ body.fail # "open") =>
          /\ entriesClosed
          /\ entriesChan = <<>>
          /\ readRet.entries = collected
          /\ EachLineOnce

\* two workers each published an entry, then the queue was closed and the
\* collector returned both
C29_Witness ==
    /\ ReadReturned
    /\ maxConcurrent = 2
    /\ maxBatchSize = 1
    /\ body.lines = <<ValidLine(EntryA), ValidLine(EntryC)>>
    /\ entriesClosed
    /\ readRet.entries = <<EntryC, EntryA>>

(***************************************************************************)
(* The delivery of one object's entries with every MAX_CONCURRENT and      *)
(* MAX_BATCH_SIZE getEnvInt can return (655-662: 0 for "0" and for text    *)
(* that is no number), under the Go scheduler and with HTTP attempts that  *)
(* complete.                                                               *)
(***************************************************************************)
SendAnyInit ==
    /\ ProcIdle
    /\ maxBatchSize \in 0..MaxBatchCfg
    /\ maxConcurrent \in 0..MaxConcurrentCfg
    /\ maxRetries \in 0..MaxRetriesCfg
    /\ body = [lines |-> <<>>, fail |-> "none"]
    /\ hpc = "send"
    /\ hret = Running
    /\ IngestIdle
    /\ entries \in SeqsUpTo(EntryUniverse, MaxEntries) \ {<<>>}
    /\ mpc = "group"
    /\ SendIdle

\* the steps of the goroutine that called convertAndSend (466-561, 371-377)
SendMainStep ==
    GroupStep \/ NextGroup \/ CheckErrReturn \/ SpawnBatch \/ WaitReturn \/ HandlerAfterSend

SendFairness ==
    /\ WF_vars(SendMainStep)
    /\ \A s \in 1..MaxSenders :
          /\ WF_vars(Acquire(s))
          /\ WF_vars(\E o \in SendOutcomes : Attempt(s, o))

SpecSendFair == SendAnyInit /\ [][SendNext]_vars /\ SendFairness

\* C30: convertAndSend returns in the end, whatever the groups, for every
\* maxConcurrent and maxBatchSize the configuration loader can produce, 0
\* included, when every HTTP attempt completes: every turn of the batch loop
\* advances its index, and every sender gets its permit and finishes
C30_SendReturns ==
    /\ <>(mpc = "returned")
    /\ [][SpawnBatch => bi' > bi]_vars

(***************************************************************************)
(* Properties of the delivery as a whole (SpecSend).                       *)
(***************************************************************************)
\* every record of every group was handed to a sender
AllSubmitted == \A k \in DOMAIN grouped : ConcatRecords(BatchesOf(k)) = grouped[k].LogRecords

\* every sender started has made an HTTP attempt
AllAttempted == \A s \in DOMAIN senders : senders[s].call.made >= 1

\* C31: a failed batch does not stop the others: when convertAndSend returns,
\* every batch of every resource group was submitted and attempted at least
\* once, also when a failure had been recorded before
C31_SiblingsNotStopped ==
    sendRet.returned => (AllSubmitted /\ AllAttempted)

(* Properties of the handler's loop as a whole (SpecHandler). *)
IngestFailed(o) == o.supported /\ (o.read = "error" \/ o.scan = "error")
DeliveryFailed(o) == o.supported /\ o.read = "entries" /\ o.send = "error"
ObjectFailed(j) == IngestFailed(inv.records[j]) \/ DeliveryFailed(inv.records[j])
Delivered(j) == \E n \in DOMAIN inv.sent : inv.sent[n] = j
InListOrder == \A m, n \in DOMAIN inv.sent : m < n => inv.sent[m] < inv.sent[n]
\* C32: the objects are handled in list order; the handler returns success
\* exactly when no object's ingestion or delivery failed; on a failure it
\* returns at the first failing object, nothing after that object is read or
\* delivered, and what was delivered before it stays delivered.
C32_FirstFailureStops ==
    inv.pc = "returned" =>
        /\ InListOrder
        /\ (inv.ret.err = <<>>) <=> (\A j \in DOMAIN inv.records : ~ObjectFailed(j))
        /\ inv.ret.err # <<>> =>
              /\ ObjectFailed(inv.i)
              /\ \A j \in DOMAIN inv.records : j < inv.i => ~ObjectFailed(j)
              /\ \A j \in DOMAIN inv.records : j > inv.i => ~Delivered(j)
              /\ \A j \in DOMAIN inv.records :
                    (j < inv.i /\ inv.records[j].supported
                        /\ inv.records[j].read = "entries") => Delivered(j)

(* Properties of the error slot of convertAndSend (SpecSend). *)
\* the error the sender of batch sd reports when its delivery has failed
ReportOf(sd) ==
    Error("failed to send batch", sd.bID, sd.call.ret.err[1].attempts, sd.call.ret.err[1].cause)
\* e is the report of a sender whose delivery failed
Recorded(e) == \E s \in DOMAIN senders : Failed(senders[s].call) /\ e = ReportOf(senders[s])
\* the failures that went into the slot so far: the one in it and the one
\* convertAndSend took out of it
Stored == Len(errChan) + (IF sendRet.err # <<>> THEN 1 ELSE 0)
\* C33: the error slot never holds more than one failure; only the first
\* failing sender's error goes into it, every later failing sender finds it
\* full and drops its error; a failing sender has finished and given its
\* permit back; the error convertAndSend returns is the report of a batch
\* that failed.
C33_OneFailureKept ==
    /\ Len(errChan) <= ErrChanCap
    /\ Stored <= 1
    /\ (\E s \in DOMAIN senders : Failed(senders[s].call)) => Stored >= 1
    /\ \A n \in DOMAIN errChan : Recorded(errChan[n])
    /\ \A s \in DOMAIN senders : Failed(senders[s].call) => senders[s].pc = "done"
    /\ sem = Cardinality(Holders)
    /\ sendRet.err # <<>> => Recorded(sendRet.err[1])

(* Order of the deliveries of one group (SpecSend). *)
\* the sender has entered sendWithRetry: its first attempt has started
AttemptStarted(sd) == sd.pc # "acquire"
\* C34: of two batches of one group, the one with the smaller index starts its
\* first delivery attempt no later than the other: whenever a batch has made
\* an attempt, every earlier batch of its group has started its own; the
\* records of a batch are a run of the group's records in their stored order.
C34_BatchIndexOrder ==
    /\ \A s, t \in DOMAIN senders :
          (senders[s].key = senders[t].key /\ senders[s].bID < senders[t].bID
              /\ senders[t].call.made >= 1) => AttemptStarted(senders[s])
    /\ \A s \in DOMAIN senders :
          PayloadRecords(senders[s]) =
              SubSeq(grouped[senders[s].key].LogRecords, senders[s].lo + 1, senders[s].hi)

(* Conservation of the records between ingestion and delivery (SpecSend). *)
\* how often x occurs in a sequence
CountIn(seq, x) == Cardinality({n \in DOMAIN seq : seq[n] = x})
\* the successful responses a call of sendWithRetry has received: the loop
\* variable counts the attempts that failed
Successes(c) == c.made - c.attempt
\* C35: when convertAndSend returns success, the records in the batches are
\* those of the entries, each as often as its entry occurs; every record is in
\* a batch of the group of its entry's resource key and in no other; every batch
\* received exactly one successful response, its last; and totalSent equals
\* the number of entries.
C35_NothingLostOrDuplicated ==
    (sendRet.returned /\ sendRet.err = <<>>) =>
        /\ Len(ConcatRecords(senders)) = Len(entries)
        /\ \A e \in EntryUniverse :
              CountIn(ConcatRecords(senders), ConvertToOTel(e)) = CountIn(entries, e)
        /\ \A s \in DOMAIN senders : \A n \in DOMAIN PayloadRecords(senders[s]) :
              getResourceKey(PayloadRecords(senders[s])[n].Body) = senders[s].key
        /\ \A s, t \in DOMAIN senders :
              (s # t /\ senders[s].key = senders[t].key) =>
                  (senders[s].hi <= senders[t].lo \/ senders[t].hi <= senders[s].lo)
        /\ \A s \in DOMAIN senders :
              /\ Succeeded(senders[s].call)
              /\ IsSuccess(senders[s].call.lastOutcome)
              /\ Successes(senders[s].call) = 1
        /\ totalSent = Len(entries)

\* convertAndSend returned success for three entries of two groups delivered in
\* three batches, one of them after a retry
C35_Witness ==
    /\ sendRet.returned
    /\ sendRet.err = <<>>
    /\ Len(entries) = 3
    /\ Len(senders) = 3
    /\ Cardinality(DOMAIN grouped) = 2
    /\ \E s \in DOMAIN senders : senders[s].call.made = 2
    /\ totalSent = 3
====
